---- MODULE Spec2Model ----
(***************************************************************************)
(* A model of the easycsv Reader: option merging, struct/slice decoder     *)
(* construction, row decoding, and the Read / Loop / ReadAll / Done        *)
(* operations over a csv row producer.                                     *)
(*                                                                         *)
(* Field texts are sequences of one-character strings, so that the         *)
(* converters parse them the way strconv does.                             *)
(***************************************************************************)
EXTENDS Integers, Sequences, FiniteSets, TLC

(***************************************************************************)
(* Bounds of the model.                                                    *)
(***************************************************************************)
\* rows the producer hands out before it must report end-of-input or fail
MaxRows == 3
\* columns of a row
MaxCols == 2
\* Option values passed to a constructor
MaxOpts == 2
\* calls the caller makes on one Reader
MaxCalls == 3
\* fields of a struct shape handed to the analysis on its own
MaxFields == 2

(***************************************************************************)
(* Error values.  Every error is a record with a kind; nil is the absence  *)
(* of an error, io.EOF the end-of-input sentinel.                          *)
(***************************************************************************)
NilErr == [kind |-> "nil"]
EOF == [kind |-> "EOF"]
Break == [kind |-> "break"]
\* a *csv.ParseError: a malformed record or a record of the wrong width
ErrParse == [kind |-> "csv.ParseError"]
\* reading from a stream that was closed
ErrClosed == [kind |-> "file already closed"]
\* os.Open failed
ErrNotExist == [kind |-> "no such file"]
\* the error a closer may return from Close
CloseError == [kind |-> "Close Error"]
\* an error made up by the visitor passed to Loop
VisitorError == [kind |-> "visitor error"]
ErrConflict == [kind |-> "You can not set both AutoIndex and AutoName"]
ErrSyntax(text) == [kind |-> "strconv: invalid syntax", text |-> text]
ErrRange(text) == [kind |-> "strconv: value out of range", text |-> text]
ErrOutOfRange(i, n) == [kind |-> "Accessed index though the size of the row", index |-> i, size |-> n]
ErrMissing(names) == [kind |-> "did not appear in the first line", names |-> names]
ErrAnalysis(msgs) == [kind |-> "analysis", msgs |-> msgs]
ErrArg(op, what) == [kind |-> "argument", op |-> op, what |-> what]

(***************************************************************************)
(* Values of struct fields and slice elements.                             *)
(***************************************************************************)
IntVal(n) == [k |-> "int", n |-> n, s |-> <<>>]
StrVal(s) == [k |-> "str", n |-> 0, s |-> s]
BoolVal(b) == [k |-> "bool", n |-> IF b THEN 1 ELSE 0, s |-> <<>>]
NoVal == [k |-> "none", n |-> 0, s |-> <<>>]

IntTypes == {"int", "int8", "int16", "int32", "int64"}
UintTypes == {"uint", "uint8", "uint16", "uint32", "uint64"}
FloatTypes == {"float32", "float64"}

\* the zero value of a Go type
ZeroOf(t) ==
  IF t \in IntTypes \cup UintTypes \cup FloatTypes THEN IntVal(0)
  ELSE IF t = "string" THEN StrVal(<<>>)
  ELSE IF t = "bool" THEN BoolVal(FALSE)
  ELSE NoVal

(***************************************************************************)
(* strconv.ParseUint / ParseInt over texts of the characters 0-9, a-f, x,  *)
(* + and -.  TLC's integers are 32 bit wide, so a width above 31 bits is   *)
(* capped at 2^31-1; the numerals of the model stay far below that.        *)
(***************************************************************************)
RECURSIVE Pow2(_)
Pow2(n) == IF n = 0 THEN 1 ELSE 2 * Pow2(n - 1)

MaxUint(bitSize) == IF bitSize >= 31 THEN 2147483647 ELSE Pow2(bitSize) - 1

Digits == <<"0", "1", "2", "3", "4", "5", "6", "7", "8", "9", "a", "b", "c", "d", "e", "f">>

\* the value of a digit character; 99 for any other character
DigitVal(c) ==
  IF \E v \in 1..16 : Digits[v] = c THEN (CHOOSE v \in 1..16 : Digits[v] = c) - 1 ELSE 99

Tail2(s) == SubSeq(s, 3, Len(s))

\* the digit loop of ParseUint: syntax and range errors in reading order
RECURSIVE Accumulate(_, _, _, _, _)
Accumulate(s, i, base, n, maxVal) ==
  IF i > Len(s) THEN [n |-> n, err |-> "ok"]
  ELSE IF DigitVal(s[i]) >= base THEN [n |-> 0, err |-> "syntax"]
  ELSE IF n * base + DigitVal(s[i]) > maxVal THEN [n |-> maxVal, err |-> "range"]
  ELSE Accumulate(s, i + 1, base, n * base + DigitVal(s[i]), maxVal)

\* base 0: the prefix 0x, 0b, 0o or 0 picks the base and is cut off
ParseUint(s, base, bitSize) ==
  IF Len(s) = 0 THEN [n |-> 0, err |-> "syntax"]
  ELSE Accumulate(IF base # 0 \/ s[1] # "0" THEN s
                  ELSE IF Len(s) >= 3 /\ s[2] \in {"x", "b", "o"} THEN Tail2(s)
                  ELSE Tail(s),
                  1,
                  IF base # 0 THEN base
                  ELSE IF s[1] # "0" THEN 10
                  ELSE IF Len(s) >= 3 /\ s[2] = "x" THEN 16
                  ELSE IF Len(s) >= 3 /\ s[2] = "b" THEN 2
                  ELSE 8,
                  0,
                  MaxUint(IF bitSize = 0 THEN 64 ELSE bitSize))

\* the sign and the cutoff 1 << (bitSize-1) applied to the unsigned value un
ParseInt(s, base, bitSize) ==
  IF Len(s) = 0 THEN [n |-> 0, err |-> "syntax"]
  ELSE LET signed(neg, un, bits, cutoff) ==
             IF un.err = "syntax" THEN [n |-> 0, err |-> "syntax"]
             ELSE IF ~neg /\ un.n >= cutoff /\ bits < 32
                  THEN [n |-> cutoff - 1, err |-> "range"]
             ELSE IF neg /\ un.n > cutoff THEN [n |-> 0 - cutoff, err |-> "range"]
             ELSE IF un.err = "range" THEN [n |-> un.n, err |-> "range"]
             ELSE [n |-> IF neg THEN 0 - un.n ELSE un.n, err |-> "ok"]
       IN signed(s[1] = "-",
                 ParseUint(IF s[1] = "+" \/ s[1] = "-" THEN Tail(s) ELSE s, base, bitSize),
                 IF bitSize = 0 THEN 64 ELSE bitSize,
                 IF bitSize = 0 \/ bitSize >= 32 THEN 2147483647 ELSE Pow2(bitSize - 1))

(***************************************************************************)
(* strconv.ParseUint / ParseInt without the cap at 2^31: a number is five  *)
(* limbs of 16 bits, the least significant first (t1..t5 are the limbs of  *)
(* n * base + digit with their carries, t5 with what exceeds 80 bits), so  *)
(* that the numerals next to 2^32 and 2^64 are read the way strconv reads  *)
(* them.                                                                   *)
(***************************************************************************)
\* n < 2^bits
Below2(n, bits) ==
  \A k \in 1..5 : n[k] < (IF 16 * (k - 1) >= bits THEN 1
                          ELSE IF 16 * k <= bits THEN 65536
                          ELSE Pow2(bits - 16 * (k - 1)))

\* the digit loop of ParseUint: n * base + digit, a range error as soon as
\* that exceeds 1<<bitSize - 1
RECURSIVE AccumulateWide(_, _, _, _, _)
AccumulateWide(s, i, base, n, bitSize) ==
  IF i > Len(s) THEN [n |-> n, err |-> "ok"]
  ELSE IF DigitVal(s[i]) >= base THEN [n |-> <<0, 0, 0, 0, 0>>, err |-> "syntax"]
  ELSE LET t1 == n[1] * base + DigitVal(s[i])
           t2 == n[2] * base + t1 \div 65536
           t3 == n[3] * base + t2 \div 65536
           t4 == n[4] * base + t3 \div 65536
           t5 == n[5] * base + t4 \div 65536
           next(n1) ==
             IF ~Below2(n1, bitSize)
             THEN [n |-> [k \in 1..5 |-> IF Below2([j \in 1..5 |-> IF j = k THEN 1 ELSE 0],
                                                    bitSize) THEN 65535 ELSE 0],
                   err |-> "range"]
             ELSE AccumulateWide(s, i + 1, base, n1, bitSize)
       IN next(<<t1 % 65536, t2 % 65536, t3 % 65536, t4 % 65536, t5>>)

ParseUintWide(s, base, bitSize) ==
  IF Len(s) = 0 THEN [n |-> <<0, 0, 0, 0, 0>>, err |-> "syntax"]
  ELSE AccumulateWide(IF base # 0 \/ s[1] # "0" THEN s
                      ELSE IF Len(s) >= 3 /\ s[2] \in {"x", "b", "o"} THEN Tail2(s)
                      ELSE Tail(s),
                      1,
                      IF base # 0 THEN base
                      ELSE IF s[1] # "0" THEN 10
                      ELSE IF Len(s) >= 3 /\ s[2] = "x" THEN 16
                      ELSE IF Len(s) >= 3 /\ s[2] = "b" THEN 2
                      ELSE 8,
                      <<0, 0, 0, 0, 0>>,
                      IF bitSize = 0 THEN 64 ELSE bitSize)

\* cutoff = 1 << (bitSize-1): un >= cutoff is out of range, un > cutoff too
\* for a negative numeral
ParseIntWide(s, base, bitSize) ==
  IF Len(s) = 0 THEN [neg |-> FALSE, n |-> <<0, 0, 0, 0, 0>>, err |-> "syntax"]
  ELSE LET signed(neg, un, bits) ==
             IF un.err = "syntax" THEN [neg |-> FALSE, n |-> un.n, err |-> "syntax"]
             ELSE IF ~neg /\ ~Below2(un.n, bits - 1)
             THEN [neg |-> FALSE, n |-> un.n, err |-> "range"]
             ELSE IF neg /\ ~Below2(un.n, bits - 1)
                     /\ un.n # [k \in 1..5 |-> IF k = ((bits - 1) \div 16) + 1
                                               THEN Pow2((bits - 1) % 16) ELSE 0]
             THEN [neg |-> TRUE, n |-> un.n, err |-> "range"]
             ELSE [neg |-> neg, n |-> un.n, err |-> un.err]
       IN signed(s[1] = "-",
                 ParseUintWide(IF s[1] = "+" \/ s[1] = "-" THEN Tail(s) ELSE s, base, bitSize),
                 IF bitSize = 0 THEN 64 ELSE bitSize)

\* the texts strconv.ParseBool accepts
TrueTexts ==
  {<<"1">>, <<"t">>, <<"T">>, <<"t", "r", "u", "e">>, <<"T", "R", "U", "E">>,
   <<"T", "r", "u", "e">>}
FalseTexts ==
  {<<"0">>, <<"f">>, <<"F">>, <<"f", "a", "l", "s", "e">>, <<"F", "A", "L", "S", "E">>,
   <<"F", "a", "l", "s", "e">>}

\* strconv.ParseBool
ParseBool(s) ==
  IF s \in TrueTexts THEN [n |-> 1, err |-> "ok"]
  ELSE IF s \in FalseTexts THEN [n |-> 0, err |-> "ok"]
  ELSE [n |-> 0, err |-> "syntax"]

(***************************************************************************)
(* Go maps.  A map is nil or a finite function.                            *)
(***************************************************************************)
EmptyFn == [x \in {} |-> 0]
NilMap == [isnil |-> TRUE, m |-> EmptyFn]
MakeMap == [isnil |-> FALSE, m |-> EmptyFn]
MapOf(f) == [isnil |-> FALSE, m |-> f]
MapLen(mp) == Cardinality(DOMAIN mp.m)
MapHas(mp, k) == k \in DOMAIN mp.m
FnPut(f, k, v) == [x \in (DOMAIN f) \cup {k} |-> IF x = k THEN v ELSE f[x]]
FnDel(f, k) == [x \in (DOMAIN f) \ {k} |-> f[x]]
\* m[k] = v on a non-nil map
MapPut(mp, k, v) == [isnil |-> FALSE, m |-> FnPut(mp.m, k, v)]

(***************************************************************************)
(* Converters.  A converter is nil (NoConv), one of the built-in closures  *)
(* or a value the user put into Option.Decoders / Option.TypeDecoders.     *)
(***************************************************************************)
NoConv == [kind |-> "nil"]

\* the bitSize each case of createIntConverter passes to strconv
BitSize(t) ==
  CASE t \in {"int", "uint"} -> 0
    [] t \in {"int8", "uint8"} -> 8
    [] t \in {"int16", "uint16"} -> 16
    [] t \in {"int32", "uint32", "uint64"} -> 32
    [] OTHER -> 64

\* createIntConverter whose closures pass base 0 whatever the encoding
createIntConverterAuto(t, base) ==
  IF t \in IntTypes THEN [kind |-> "int", base |-> 0, bitSize |-> BitSize(t), out |-> t]
  ELSE IF t \in UintTypes THEN [kind |-> "uint", base |-> 0, bitSize |-> BitSize(t), out |-> t]
  ELSE NoConv

\* encode.go createIntConverter: the closure's ParseInt/ParseUint call
createIntConverter(t, base) ==
  IF t \in IntTypes THEN [kind |-> "int", base |-> base, bitSize |-> BitSize(t), out |-> t]
  ELSE IF t \in UintTypes
  THEN [kind |-> "uint", base |-> base, bitSize |-> BitSize(t), out |-> t]
  ELSE NoConv

\* predefinedDecoders with base 8 behind "hex" as well
predefinedDecodersOctalHex(enc) ==
  CASE enc = "hex" -> 8 [] enc = "oct" -> 8 [] enc = "deci" -> 10 [] OTHER -> 0

\* encode.go predefinedDecoders: the base of a built-in encoding, 0 if none
predefinedDecoders(enc) ==
  CASE enc = "hex" -> 16 [] enc = "oct" -> 8 [] enc = "deci" -> 10 [] OTHER -> 0

createDefaultConverter(t) ==
  IF t \in IntTypes \cup UintTypes THEN createIntConverter(t, 0)
  ELSE IF t = "float32" THEN [kind |-> "float", bitSize |-> 32, out |-> t]
  ELSE IF t = "float64" THEN [kind |-> "float", bitSize |-> 64, out |-> t]
  ELSE IF t = "bool" THEN [kind |-> "bool", out |-> t]
  ELSE IF t = "string" THEN [kind |-> "string", out |-> t]
  ELSE NoConv

\* A user function: its reflected signature and what it does when called.
\* isFunc: Kind() == Func; in, out: parameter and result types.
UserConv(id, isFunc, in, out) ==
  [kind |-> "user", id |-> id, isFunc |-> isFunc, in |-> in, out |-> out]
\* func(s string) (string, error) { return "[" + s + "]", nil }
BracketConv == UserConv("bracket", TRUE, <<"string">>, <<"string", "error">>)
\* func(s string) (int, error) { return 0, errors.New(...) }
FailConv == UserConv("fail", TRUE, <<"string">>, <<"int", "error">>)

ErrUser == [kind |-> "user converter failed"]

\* converter.Call: the value and the error the converter returns for a text
Call(conv, text) ==
  LET num(p, ranged) ==
        [val |-> IF conv.kind = "bool" THEN BoolVal(p.n = 1) ELSE IntVal(p.n),
         err |-> IF p.err = "ok" THEN NilErr
                 ELSE IF ranged /\ p.err = "range" THEN ErrRange(text) ELSE ErrSyntax(text)]
  IN CASE conv.kind \in {"int", "float"} ->
            \* strconv.ParseFloat is followed on the plain decimal numerals only
            num(ParseInt(text, IF conv.kind = "int" THEN conv.base ELSE 10,
                         IF conv.kind = "int" THEN conv.bitSize ELSE 31),
                conv.kind = "int")
       [] conv.kind = "uint" -> num(ParseUint(text, conv.base, conv.bitSize), TRUE)
       [] conv.kind = "bool" ->
            num(ParseBool(text), FALSE)
       [] conv.kind = "string" -> [val |-> StrVal(text), err |-> NilErr]
       [] conv.kind = "user" /\ conv.id = "bracket" ->
            [val |-> StrVal(<<"[">> \o text \o <<"]">>), err |-> NilErr]
       [] OTHER -> [val |-> IntVal(0), err |-> ErrUser]

(***************************************************************************)
(* option.go: Option, mergeOption, validate, mergeOptions.                 *)
(***************************************************************************)
ZeroOption ==
  [Comma |-> 0, Comment |-> 0, LazyQuotes |-> FALSE, AllowMissingFields |-> FALSE,
   Decoders |-> NilMap, TypeDecoders |-> NilMap, AutoIndex |-> FALSE, AutoName |-> FALSE]

\* a merge of maps in which the entry that is already there stays
MergeMapKeepFirst(a, b) ==
  IF b.isnil THEN a
  ELSE MapOf([k \in (DOMAIN a.m) \cup (DOMAIN b.m) |->
                IF k \in DOMAIN a.m THEN a.m[k] ELSE b.m[k]])

\* for name, dec := range b { a[name] = dec }
MergeMap(a, b) ==
  IF b.isnil THEN a
  ELSE MapOf([k \in (DOMAIN a.m) \cup (DOMAIN b.m) |->
                IF k \in DOMAIN b.m THEN b.m[k] ELSE a.m[k]])

mergeOption(a, b) ==
  [Comma |-> IF b.Comma # 0 THEN b.Comma ELSE a.Comma,
   Comment |-> IF b.Comment # 0 THEN b.Comment ELSE a.Comment,
   AutoIndex |-> IF b.AutoIndex THEN TRUE ELSE a.AutoIndex,
   AutoName |-> IF b.AutoName THEN TRUE ELSE a.AutoName,
   LazyQuotes |-> IF b.LazyQuotes THEN b.LazyQuotes ELSE a.LazyQuotes,
   AllowMissingFields |-> IF b.AllowMissingFields THEN TRUE ELSE a.AllowMissingFields,
   Decoders |-> MergeMap(a.Decoders, b.Decoders),
   TypeDecoders |-> MergeMap(a.TypeDecoders, b.TypeDecoders)]

validate(a) == IF a.AutoIndex /\ a.AutoName THEN ErrConflict ELSE NilErr

RECURSIVE FoldOptions(_, _, _)
FoldOptions(opt, opts, i) ==
  IF i > Len(opts) THEN opt ELSE FoldOptions(mergeOption(opt, opts[i]), opts, i + 1)

mergeOptions(opts) ==
  [opt |-> FoldOptions(ZeroOption, opts, 1), err |-> validate(FoldOptions(ZeroOption, opts, 1))]

(***************************************************************************)
(* Types handed to Read, Loop and ReadAll.  A struct type is its sequence  *)
(* of fields; a field carries its name, its type and its tags ("" = <<>>). *)
(***************************************************************************)
Field(Name, Type, name, index, enc) ==
  [Name |-> Name, Type |-> Type, name |-> name, index |-> index, enc |-> enc,
   exported |-> TRUE]
StructOf(fields) == [kind |-> "struct", fields |-> fields]
SliceOf(elem) == [kind |-> "slice", elem |-> elem]
NumField(t) == Len(t.fields)

\* reflect.New(t).Elem(): the zero value of a struct or slice type
ZeroValue(t) ==
  IF t.kind = "struct" THEN [i \in 1..NumField(t) |-> ZeroOf(t.fields[i].Type)]
  ELSE <<>>

Msg(text, subject) == [msg |-> text, subject |-> subject]

\* the error a panic of the Go runtime leaves behind
ErrPanic == [kind |-> "panic"]

(***************************************************************************)
(* Converter validation and resolution.                                    *)
(***************************************************************************)
\* validateCustomConverter that returns at the first violation it finds
validateCustomConverterFirst(conv, enc, field) ==
  IF ~conv.isFunc THEN [ok |-> FALSE, errs |-> <<Msg("must be a function", enc)>>]
  ELSE IF Len(conv.in) # 1 THEN [ok |-> FALSE, errs |-> <<Msg("must receive an arg", enc)>>]
  ELSE IF conv.in[1] # "string"
  THEN [ok |-> FALSE, errs |-> <<Msg("must receive a string", enc)>>]
  ELSE IF Len(conv.out) # 2
  THEN [ok |-> FALSE, errs |-> <<Msg("must return two values", enc)>>]
  ELSE IF conv.out[1] # field.Type
  THEN [ok |-> FALSE, errs |-> <<Msg("enc returns another type", field.Name)>>]
  ELSE IF conv.out[2] # "error"
  THEN [ok |-> FALSE, errs |-> <<Msg("second return value must be error", enc)>>]
  ELSE [ok |-> TRUE, errs |-> <<>>]

validateCustomConverter(conv, enc, field) ==
  IF ~conv.isFunc
  THEN [ok |-> FALSE, errs |-> <<Msg("must be a function", enc)>>]
  ELSE LET inErrs ==
             IF Len(conv.in) # 1 THEN <<Msg("must receive an arg", enc)>>
             ELSE IF conv.in[1] # "string" THEN <<Msg("must receive a string", enc)>>
             ELSE <<>>
           outErrs ==
             IF Len(conv.out) # 2 THEN <<Msg("must return two values", enc)>>
             ELSE (IF conv.out[1] # field.Type
                   THEN <<Msg("enc returns another type", field.Name)>> ELSE <<>>)
                  \o (IF conv.out[2] # "error"
                      THEN <<Msg("second return value must be error", enc)>> ELSE <<>>)
       IN [ok |-> inErrs = <<>> /\ outErrs = <<>>, errs |-> inErrs \o outErrs]

validateTypeDecoder(t, conv) ==
  IF conv = NoConv THEN ErrPanic
  ELSE IF ~conv.isFunc THEN [kind |-> "The decoder must be a function", type |-> t]
  ELSE IF Len(conv.in) # 1 \/ Len(conv.out) # 2
       THEN [kind |-> "The decoder must receive one arguments and returns two values", type |-> t]
  ELSE IF conv.in[1] # "string"
       THEN [kind |-> "The decoder must receive a string as the first arg", type |-> t]
  ELSE IF conv.out[1] # t \/ conv.out[2] # "error"
       THEN [kind |-> "The decoder must return (t, error)", type |-> t]
  ELSE NilErr

\* createConverterFromType that never looks into opt.TypeDecoders
createConverterDefaultOnly(opt, t) == [conv |-> createDefaultConverter(t), err |-> NilErr]

createConverterFromType(opt, t) ==
  IF ~opt.TypeDecoders.isnil /\ MapHas(opt.TypeDecoders, t)
  THEN LET checked(conv, err) ==
             IF err # NilErr THEN [conv |-> NoConv, err |-> err]
             ELSE [conv |-> conv, err |-> NilErr]
       IN checked(opt.TypeDecoders.m[t], validateTypeDecoder(t, opt.TypeDecoders.m[t]))
  ELSE [conv |-> createDefaultConverter(t), err |-> NilErr]

(***************************************************************************)
(* parseStructTag.  acc carries nameMap, idxMap, converters and errors,    *)
(* the four out-parameters of the Go function.                             *)
(***************************************************************************)
EmptyAcc == [nameMap |-> EmptyFn, idxMap |-> EmptyFn, converters |-> <<>>, errors |-> <<>>]

AddErrors(acc, errs) == [acc EXCEPT !.errors = @ \o errs]

\* strconv.Atoi
Atoi(s) == ParseInt(s, 10, 0)

\* the second half of parseStructTag, from "if conv == nil" on (lines 630-651)
\* byType: createConverterFromType of the field; i: strconv.Atoi of its index tag
BindField(opt, field, fieldIdx, acc, conv0) ==
  LET bind(byType, i) ==
        LET conv == IF conv0 = NoConv THEN byType.conv ELSE conv0
            acc1 == IF conv0 = NoConv /\ byType.err # NilErr
                    THEN AddErrors(acc, <<Msg(byType.err.kind, field.Type)>>) ELSE acc
        IN IF conv = NoConv
           THEN AddErrors(acc1, <<Msg("Unexpected field type", field.Name)>>)
           ELSE IF field.name # <<>>
           THEN [acc1 EXCEPT !.converters = Append(@, conv),
                             !.nameMap = FnPut(@, field.name, fieldIdx)]
           ELSE IF i.err # "ok" \/ i.n < 0
           THEN AddErrors([acc1 EXCEPT !.converters = Append(@, conv)],
                          <<Msg("Failed to parse index of field", field.Name)>>)
           ELSE [acc1 EXCEPT !.converters = Append(@, conv),
                             !.idxMap = FnPut(@, i.n, fieldIdx)]
  IN bind(createConverterFromType(opt, field.Type), Atoi(field.index))

parseStructTag(opt, field, fieldIdx, acc) ==
  IF field.name = <<>> /\ field.index = <<>>
  THEN AddErrors(acc, <<Msg("Please specify name or index to the struct field", field.Name)>>)
  ELSE IF field.name # <<>> /\ field.index # <<>>
  THEN AddErrors(acc, <<Msg("Please specify name or index to the struct field", field.Name)>>)
  ELSE IF field.enc # ""
  THEN IF ~opt.Decoders.isnil /\ MapHas(opt.Decoders, field.enc)
          /\ opt.Decoders.m[field.enc] # NoConv
       THEN BindField(opt, field, fieldIdx,
                      AddErrors(acc, validateCustomConverter(opt.Decoders.m[field.enc],
                                                             field.enc, field).errs),
                      IF validateCustomConverter(opt.Decoders.m[field.enc], field.enc, field).ok
                      THEN opt.Decoders.m[field.enc] ELSE NoConv)
       ELSE IF predefinedDecoders(field.enc) # 0
       THEN BindField(opt, field, fieldIdx,
                      IF createIntConverter(field.Type, predefinedDecoders(field.enc)) = NoConv
                      THEN AddErrors(acc, <<Msg("Encoding does not support", field.enc)>>)
                      ELSE acc,
                      createIntConverter(field.Type, predefinedDecoders(field.enc)))
       ELSE AddErrors(acc, <<Msg("Encoding is not defined", field.enc)>>)
  ELSE BindField(opt, field, fieldIdx, acc, NoConv)

\* the loop over the fields, left at the first field that reports an error
RECURSIVE ParseFieldsFirstError(_, _, _, _)
ParseFieldsFirstError(opt, t, i, acc) ==
  IF i >= NumField(t) \/ acc.errors # <<>> THEN acc
  ELSE ParseFieldsFirstError(opt, t, i + 1, parseStructTag(opt, t.fields[i + 1], i, acc))

RECURSIVE ParseFields(_, _, _, _)
ParseFields(opt, t, i, acc) ==
  IF i >= NumField(t) THEN acc
  ELSE ParseFields(opt, t, i + 1, parseStructTag(opt, t.fields[i + 1], i, acc))

(***************************************************************************)
(* Row decoders.                                                           *)
(***************************************************************************)
NoDecoder == [kind |-> "none"]

newSliceDecoder(opt, t) ==
  LET build(c) ==
        IF c.err # NilErr THEN [dec |-> NoDecoder, err |-> c.err]
        ELSE IF c.conv = NoConv
        THEN [dec |-> NoDecoder, err |-> [kind |-> "Failed to create a converter", type |-> t.elem]]
        ELSE [dec |-> [kind |-> "slice", elemType |-> t.elem, converter |-> c.conv], err |-> NilErr]
  IN build(createConverterFromType(opt, t.elem))

Unexported(t) == {i \in 1..NumField(t) : ~t.fields[i].exported}

newStructDecoder(opt, t) ==
  IF NumField(t) = 0
  THEN [dec |-> NoDecoder, err |-> [kind |-> "The struct has no field"]]
  ELSE IF Unexported(t) # {}
  THEN [dec |-> NoDecoder,
        err |-> [kind |-> "must not have unexported fields",
                 names |-> {t.fields[i].Name : i \in Unexported(t)}]]
  ELSE LET build(acc) ==
             IF DOMAIN acc.nameMap # {} /\ DOMAIN acc.idxMap # {}
             THEN [dec |-> NoDecoder,
                   err |-> ErrAnalysis(Append(acc.errors,
                             Msg("Fields with name and fields with index are mixed", "")))]
             ELSE IF acc.errors # <<>> THEN [dec |-> NoDecoder, err |-> ErrAnalysis(acc.errors)]
             ELSE IF Len(acc.converters) # NumField(t) THEN [dec |-> NoDecoder, err |-> ErrPanic]
             ELSE [dec |-> [kind |-> "struct", structType |-> t, converters |-> acc.converters,
                            names |-> IF DOMAIN acc.nameMap # {} THEN MapOf(acc.nameMap) ELSE NilMap,
                            indice |-> IF DOMAIN acc.nameMap # {} THEN NilMap ELSE MapOf(acc.idxMap)],
                   err |-> NilErr]
       IN build(ParseFields(opt, t, 0, EmptyAcc))

newDecoder(opt, t) ==
  IF t.kind = "struct" THEN newStructDecoder(opt, t) ELSE newSliceDecoder(opt, t)

needHeader(d) == d.kind = "struct" /\ ~d.names.isnil

\* the header scan from the last column to the first
RECURSIVE ScanHeaderFromRight(_, _, _, _)
ScanHeaderFromRight(header, i, names, indice) ==
  IF i >= Len(header) THEN [names |-> names, indice |-> indice]
  ELSE LET col == header[Len(header) - i] IN
       IF col \in DOMAIN names
       THEN ScanHeaderFromRight(header, i + 1, FnDel(names, col),
                                FnPut(indice, Len(header) - i - 1, names[col]))
       ELSE ScanHeaderFromRight(header, i + 1, names, indice)

\* the header scan of consumeHeader: columns left to right, 0-based
RECURSIVE ScanHeader(_, _, _, _)
ScanHeader(header, i, names, indice) ==
  IF i >= Len(header) THEN [names |-> names, indice |-> indice]
  ELSE LET col == header[i + 1] IN
       IF col \in DOMAIN names
       THEN ScanHeader(header, i + 1, FnDel(names, col), FnPut(indice, i, names[col]))
       ELSE ScanHeader(header, i + 1, names, indice)

\* consumeHeader that binds the fields to the columns in declaration order
consumeHeaderByPosition(d, header) ==
  IF d.kind = "slice" THEN [dec |-> d, err |-> NilErr]
  ELSE [dec |-> [d EXCEPT !.indice = MapOf([i \in 0..(NumField(d.structType) - 1) |-> i]),
                          !.names = NilMap],
        err |-> NilErr]

consumeHeader(d, header) ==
  IF d.kind = "slice" THEN [dec |-> d, err |-> NilErr]
  ELSE LET scanned(h) ==
             IF DOMAIN h.names # {}
             THEN [dec |-> [d EXCEPT !.indice = MapOf(h.indice), !.names = MapOf(h.names)],
                   err |-> ErrMissing(DOMAIN h.names)]
             ELSE [dec |-> [d EXCEPT !.indice = MapOf(h.indice), !.names = NilMap],
                   err |-> NilErr]
       IN scanned(ScanHeader(header, 0, d.names.m, EmptyFn))

\* the orders in which a range statement may visit the keys of a map
Orders(S) ==
  {f \in [1..Cardinality(S) -> S] : \A a, b \in 1..Cardinality(S) : a # b => f[a] # f[b]}

\* the error message built from the field index j in place of the column i
OutOfRangeErrorField(i, j, row) == ErrOutOfRange(j, Len(row))

\* fmt.Errorf("Accessed index %d though the size of the row is %d", i, len(row))
OutOfRangeError(i, j, row) == ErrOutOfRange(i, Len(row))

\* Field(i) in place of Field(j)
SetFieldByColumn(out, i, j, v) == [out EXCEPT ![i + 1] = v]

\* out.Elem().Field(j).Set(v), for the pair i, j of d.indice
SetField(out, i, j, v) == [out EXCEPT ![j + 1] = v]

\* structRowDecoder.decode, visiting d.indice in the order ord
\* reads: the columns whose text the call has taken from row
RECURSIVE structDecodeFrom(_, _, _, _, _, _)
structDecodeFrom(d, row, out, ord, k, reads) ==
  IF k > Len(ord) THEN [err |-> NilErr, out |-> out, reads |-> reads]
  ELSE IF ord[k] >= Len(row)
  THEN [err |-> OutOfRangeError(ord[k], d.indice.m[ord[k]], row), out |-> out, reads |-> reads]
  ELSE LET set(i, j, rets) ==
             IF rets.err # NilErr
             THEN [err |-> rets.err, out |-> out, reads |-> reads \cup {i}]
             ELSE structDecodeFrom(d, row, SetField(out, i, j, rets.val), ord, k + 1,
                                   reads \cup {i})
       IN set(ord[k], d.indice.m[ord[k]],
              Call(d.converters[d.indice.m[ord[k]] + 1], row[ord[k] + 1]))

\* sliceRowDecoder.decode: the fresh slice, or the first converter failure
RECURSIVE sliceDecodeFrom(_, _, _, _)
sliceDecodeFrom(d, row, acc, k) ==
  IF k > Len(row) THEN [err |-> NilErr, out |-> acc]
  ELSE LET add(rets) ==
             IF rets.err # NilErr THEN [err |-> rets.err, out |-> acc]
             ELSE sliceDecodeFrom(d, row, Append(acc, rets.val), k + 1)
       IN add(Call(d.converter, row[k]))

\* decode(row, out): every (error, new value of *out) the call can produce
decode(d, row, out) ==
  IF d.kind = "slice"
  THEN {[err |-> x.err, out |-> IF x.err = NilErr THEN x.out ELSE out,
         reads |-> 0..(Len(row) - 1)] : x \in {sliceDecodeFrom(d, row, <<>>, 1)}}
  ELSE {structDecodeFrom(d, row, out, ord, 1, {}) : ord \in Orders(DOMAIN d.indice.m)}

(***************************************************************************)
(* The Reader, the csv row producer under it and the caller around it.     *)
(*   r        the Reader struct                                            *)
(*   prod     the csv.Reader: what it has handed out so far                *)
(*   stream   the closable stream given to the constructor                 *)
(*   pc, call a running Loop or ReadAll and its decoder                    *)
(*   e, s     the caller's variables passed to Read and to ReadAll         *)
(*   visits   the records the running or last Loop gave to its visitor     *)
(*   hist     what the caller has observed: calls, results, first events   *)
(*            (rowOne: the first row of the input was decoded and given to *)
(*            the caller as a record;                                      *)
(*            stop: the result of the visitor that ended the last Loop;    *)
(*            owed: the length of *s before ReadAll plus the rows ReadAll  *)
(*            has decoded without an error)                                *)
(*   panicked the Go runtime panicked                                      *)
(*   probe    a shape or a header handed to the analysis and the decoders  *)
(*            on their own, without a Reader (NoProbe while a Reader runs) *)
(***************************************************************************)
VARIABLES r, prod, stream, pc, call, e, s, visits, hist, panicked, probe

vars == <<r, prod, stream, pc, call, e, s, visits, hist, panicked, probe>>

NoProbe == [kind |-> "none"]

\* the field texts of the inputs
Cells == {<<"1">>, <<"a">>}

NonEOF(err) == err # NilErr /\ err # EOF

(***************************************************************************)
(* Constructors.                                                           *)
(***************************************************************************)
ZeroReader ==
  [csv |-> FALSE, closer |-> FALSE, done |-> FALSE, err |-> NilErr, opt |-> ZeroOption,
   lineno |-> 0, firstLine |-> <<>>, cur |-> <<>>]

\* the Reader a constructor builds from the merged options m
Construct(m, closer) ==
  IF m.err # NilErr THEN [ZeroReader EXCEPT !.err = m.err]
  ELSE [ZeroReader EXCEPT !.csv = TRUE, !.opt = m.opt, !.closer = closer]

NewReader(opts) == Construct(mergeOptions(opts), FALSE)

NewReadCloser(opts) == Construct(mergeOptions(opts), TRUE)

\* opened: os.Open succeeded
NewReaderFile(opened, opts) ==
  IF opened THEN NewReadCloser(opts) ELSE [ZeroReader EXCEPT !.err = ErrNotExist]

\* the Option values a constructor is called with
OptionChoices == {ZeroOption, [ZeroOption EXCEPT !.AutoIndex = TRUE, !.AutoName = TRUE]}

OptionLists == UNION {[1..n -> OptionChoices] : n \in 0..MaxOpts}

(***************************************************************************)
(* encoding/csv: Reader.Read.  With FieldsPerRecord 0 the first record     *)
(* fixes the width (prod.width) and a record of another width is an error. *)
(***************************************************************************)
\* the records of width w: at most one field is not a numeral
Rows(w) == {row \in [1..w -> Cells] : Cardinality({i \in 1..w : row[i] = <<"a">>}) <= 1}

CsvOutcomes(p) ==
  LET open == ~p.eof /\ p.n < MaxRows
      widths == IF p.width = 0 THEN 1..MaxCols ELSE {p.width}
      rows == IF open THEN UNION {Rows(w) : w \in widths} ELSE {}
      errs == (IF open THEN {ErrParse} ELSE {})
              \cup (IF stream.closed > 0 THEN {ErrClosed} ELSE {})
              \cup {EOF}
  IN {[line |-> row, err |-> NilErr] : row \in rows}
     \cup {[line |-> <<>>, err |-> x] : x \in errs}

Advance(p, o) ==
  [n |-> IF o.err \in {EOF, ErrClosed} THEN p.n ELSE p.n + 1,
   rows |-> IF o.err = NilErr THEN p.rows + 1 ELSE p.rows,
   width |-> IF o.err = NilErr /\ p.width = 0 THEN Len(o.line) ELSE p.width,
   eof |-> p.eof \/ o.err = EOF,
   touched |-> TRUE,
   last |-> o]

(***************************************************************************)
(* Reader.readLine, Reader.nonEOFError, Reader.Done.                       *)
(***************************************************************************)
\* readLine that counts the attempt, not the row
readLineCountsAttempts(rr, o) ==
  IF o.err # NilErr THEN [rr EXCEPT !.err = o.err, !.lineno = @ + 1]
  ELSE [rr EXCEPT !.cur = o.line, !.lineno = @ + 1,
                  !.firstLine = IF rr.lineno + 1 = 1 THEN o.line ELSE @]

readLine(rr, o) ==
  IF o.err # NilErr THEN [rr EXCEPT !.err = o.err]
  ELSE [rr EXCEPT !.cur = o.line, !.lineno = @ + 1,
                  !.firstLine = IF rr.lineno + 1 = 1 THEN o.line ELSE @]

\* Reader.LineNumber
LineNumber(rr) == rr.lineno

\* nonEOFError without the io.EOF case
nonEOFErrorRaw(rr) == rr.err

nonEOFError(rr) == IF rr.err = NilErr \/ rr.err = EOF THEN NilErr ELSE rr.err

\* the error r.err holds after "if r.closer != nil { ... }" of Done
Closed(rr, st) ==
  IF rr.closer /\ (rr.err = NilErr \/ rr.err = EOF) THEN st.closeErr ELSE rr.err

\* the stream after "r.closer.Close()"
Close(rr, st) == IF rr.closer THEN [st EXCEPT !.closed = @ + 1] ELSE st

\* Done without the done flag: every call closes
DoneAgain(rr, st) ==
  [r |-> [rr EXCEPT !.done = TRUE, !.err = Closed(rr, st)],
   stream |-> Close(rr, st),
   ret |-> nonEOFError([rr EXCEPT !.err = Closed(rr, st)])]

\* Done that stores the error of Close whatever was recorded
DoneOverwrite(rr, st) ==
  IF rr.done THEN [r |-> rr, stream |-> st, ret |-> nonEOFError(rr)]
  ELSE [r |-> [rr EXCEPT !.done = TRUE, !.err = IF rr.closer THEN st.closeErr ELSE @],
        stream |-> Close(rr, st),
        ret |-> nonEOFError([rr EXCEPT !.err = IF rr.closer THEN st.closeErr ELSE @])]

\* Done that reports nothing once the Reader is done
DoneForgets(rr, st) ==
  IF rr.done THEN [r |-> rr, stream |-> st, ret |-> NilErr]
  ELSE [r |-> [rr EXCEPT !.done = TRUE, !.err = Closed(rr, st)],
        stream |-> Close(rr, st),
        ret |-> nonEOFError([rr EXCEPT !.err = Closed(rr, st)])]

Done(rr, st) ==
  IF rr.done THEN [r |-> rr, stream |-> st, ret |-> nonEOFError(rr)]
  ELSE [r |-> [rr EXCEPT !.done = TRUE, !.err = Closed(rr, st)],
        stream |-> Close(rr, st),
        ret |-> nonEOFError([rr EXCEPT !.err = Closed(rr, st)])]

(***************************************************************************)
(* Steps of the operations on a world w = [r, prod, panicked, clean, dec,   *)
(* hdr]: the Reader and the producer while a call is running.  clean says  *)
(* that nothing but end-of-input has happened so far; dec is the last      *)
(* decode, hdr the last match of a header row against a name-bound plan.   *)
(***************************************************************************)
NoDecode == [valid |-> FALSE]

\* no header row was matched against a plan
NoHeader == [seen |-> FALSE, missing |-> {}]

World ==
  [r |-> r, prod |-> prod, panicked |-> FALSE, clean |-> hist.clean, dec |-> NoDecode,
   hdr |-> NoHeader]

\* r.err = err for an error found by the Reader itself
Fail(w, err) == [w EXCEPT !.r.err = err, !.clean = FALSE]

\* r.readLine(): every result the producer allows; a nil r.csv panics
ReadLine(w) ==
  IF ~w.r.csv THEN {[w EXCEPT !.panicked = TRUE, !.clean = FALSE, !.prod.touched = TRUE]}
  ELSE {[w EXCEPT !.r = readLine(w.r, o), !.prod = Advance(w.prod, o),
                  !.clean = @ /\ o.err \in {NilErr, EOF}] : o \in CsvOutcomes(w.prod)}

\* the names of the plan d that are no column of the header row
Unmatched(d, header) ==
  [seen |-> TRUE, missing |-> DOMAIN d.names.m \ {header[i] : i \in 1..Len(header)}]

\* every call reads a header row
HeaderPendingAlways(rr) == TRUE

\* "if r.lineno == 0": no row has been read, the header row is still to come
HeaderPending(rr) == rr.lineno = 0

\* "if decoder.needHeader() { ... }" of Read and Loop; ReadAll drops the
\* error of consumeHeader (ignore).  stop: the operation returns.
HeaderStep(w, d, ignore) ==
  IF ~needHeader(d) THEN {[w |-> w, dec |-> d, stop |-> FALSE]}
  ELSE LET consume(x, h) ==
             IF h.err # NilErr /\ ~ignore
             THEN [w |-> [Fail(x, h.err) EXCEPT !.hdr = Unmatched(d, x.r.firstLine)],
                   dec |-> h.dec, stop |-> TRUE]
             ELSE [w |-> [x EXCEPT !.clean = @ /\ h.err = NilErr,
                                   !.hdr = Unmatched(d, x.r.firstLine)],
                   dec |-> h.dec, stop |-> FALSE]
       IN {IF HeaderPending(w.r) /\ (x.panicked \/ x.r.err # NilErr)
           THEN [w |-> x, dec |-> d, stop |-> TRUE]
           ELSE consume(x, consumeHeader(d, x.r.firstLine))
           : x \in IF HeaderPending(w.r) THEN ReadLine(w) ELSE {w}}

\* the decode call of an operation, with what it was called on
\* bound: the columns the plan reads; failing: those whose text does not convert
Decoded(x, d, dd, handed, op) ==
  LET row == x.r.cur
      bound == IF d.kind = "struct" THEN DOMAIN d.indice.m ELSE 0..(Len(row) - 1)
      conv(i) == IF d.kind = "struct" THEN d.converters[d.indice.m[i] + 1] ELSE d.converter
  IN [x EXCEPT !.clean = @ /\ dd.err = NilErr,
               !.dec = [valid |-> TRUE, struct |-> d.kind = "struct", bound |-> bound,
                        failing |-> {i \in bound : i < Len(row) /\ Call(conv(i), row[i + 1]).err # NilErr},
                        err |-> dd.err, reads |-> dd.reads, handed |-> handed, op |-> op]]

Kind(t) == IF t.kind = "sliceOf" THEN "slice" ELSE t.kind

\* the row type a decoder is built for: a list type has no scalar elements
RowType(t) == IF t.kind = "sliceOf" THEN SliceOf("composite") ELSE t

(***************************************************************************)
(* The arguments the caller passes.                                        *)
(***************************************************************************)
\* struct { A string `index:"1"`; B int `index:"0"` }
Entry ==
  StructOf(<<Field("A", "string", <<>>, <<"1">>, ""), Field("B", "int", <<>>, <<"0">>, "")>>)
\* struct { A int `name:"1"`; B string `name:"a"` }
Named ==
  StructOf(<<Field("A", "int", <<"1">>, <<>>, ""), Field("B", "string", <<"a">>, <<>>, "")>>)
\* struct { A int }
NoTag == StructOf(<<Field("A", "int", <<>>, <<>>, "")>>)
\* struct {}
EmptyStruct == StructOf(<<>>)
\* []int
IntSlice == SliceOf("int")
Scalar == [kind |-> "scalar", name |-> "int"]
ListOf(t) == [kind |-> "sliceOf", elem |-> t]

RowTypes == {Entry, Named, NoTag, IntSlice}

NilArg == [kind |-> "nil"]
Value(t) == [kind |-> "value", type |-> t]
Ptr(t) == [kind |-> "ptr", type |-> t]

ReadArgs == {NilArg, Ptr(Scalar)} \cup {Ptr(t) : t \in RowTypes}

\* a func value: its parameters and its result types
Body(in, out) == [kind |-> "func", in |-> in, out |-> out]

LoopArgs ==
  {NilArg, Body(<<Value(Entry)>>, <<"int">>), Body(<<Value(EmptyStruct)>>, <<>>),
   Body(<<Ptr(Entry)>>, <<>>), Body(<<Ptr(Entry)>>, <<"bool">>),
   Body(<<Value(Named)>>, <<"error">>), Body(<<Value(IntSlice)>>, <<"error">>),
   Body(<<Value(NoTag)>>, <<>>)}

ReadAllArgs ==
  {NilArg, Ptr(IntSlice)} \cup {Ptr(ListOf(t)) : t \in RowTypes}

\* the checks of body, lines 310-347
LoopCheck(body) ==
  IF body.kind = "nil" THEN ErrArg("Loop", "must not be nil")
  ELSE IF body.kind # "func" THEN ErrArg("Loop", "must be func")
  ELSE IF Len(body.in) # 1 \/ Len(body.out) > 1
  THEN ErrArg("Loop", "must receive one argument and return one or zero value")
  ELSE IF Len(body.out) > 0 /\ body.out[1] \notin {"bool", "error"}
  THEN ErrArg("Loop", "must return error or bool")
  ELSE LET in == body.in[1] IN
       IF ~(\/ in.kind = "value" /\ Kind(in.type) \in {"struct", "slice"}
            \/ in.kind = "ptr" /\ Kind(in.type) = "struct")
       THEN ErrArg("Loop", "must receive a struct, a pointer to a struct or a slice")
       ELSE IF Kind(in.type) # "slice" /\ NumField(in.type) = 0
       THEN ErrArg("Loop", "must have at least one field")
       ELSE NilErr

\* the checks of s, lines 463-476
ReadAllCheck(arg) ==
  IF arg.kind = "nil" THEN ErrArg("ReadAll", "must not be nil")
  ELSE IF arg.kind # "ptr" \/ Kind(arg.type) # "slice"
  THEN ErrArg("ReadAll", "must be a pointer to a slice")
  ELSE IF arg.type.kind # "sliceOf" \/ Kind(arg.type.elem) \notin {"struct", "slice"}
  THEN ErrArg("ReadAll", "must be a pointer to a slice of a slice or of a struct")
  ELSE NilErr

\* how the tags of t bind the rows: "name", "index", "slice" or, for a type
\* no decoder is built for, "none"
Binding(t) ==
  IF Kind(t) = "slice" THEN "slice"
  ELSE IF Kind(t) # "struct" \/ NumField(t) = 0 THEN "none"
  ELSE IF \A i \in 1..NumField(t) : t.fields[i].name # <<>> /\ t.fields[i].index = <<>>
  THEN "name"
  ELSE IF \A i \in 1..NumField(t) : t.fields[i].name = <<>> /\ t.fields[i].index # <<>>
  THEN "index"
  ELSE "none"

\* a variable of the caller: its type and its value
Var(t, v) == [type |-> t, val |-> v]
NoVar == Var(Scalar, <<>>)

(***************************************************************************)
(* What the caller has observed.                                           *)
(***************************************************************************)
Ret(ok, err) == [ok |-> ok, err |-> err]

\* struct shapes bound by pairwise distinct indices, all fields convertible
IndexBound(t) ==
  /\ t.kind = "struct" /\ NumField(t) > 0
  /\ \A i \in 1..NumField(t) :
       /\ t.fields[i].name = <<>> /\ t.fields[i].index # <<>> /\ t.fields[i].enc = ""
       /\ Atoi(t.fields[i].index).err = "ok"
       /\ createDefaultConverter(t.fields[i].Type) # NoConv
  /\ \A i, j \in 1..NumField(t) : i # j => t.fields[i].index # t.fields[j].index

\* the row covers every index of t and every bound column converts
GoodRow(t, row) ==
  \A i \in 1..NumField(t) :
    \E c \in {Atoi(t.fields[i].index).n} :
      c < Len(row) /\ Call(createDefaultConverter(t.fields[i].Type), row[c + 1]).err = NilErr

\* each field's converter applied to the column its index tag names
Expected(t, row) ==
  [i \in 1..NumField(t) |->
     Call(createDefaultConverter(t.fields[i].Type), row[Atoi(t.fields[i].index).n + 1]).val]

\* the caller only ever calls Read with one index-bound variable, then Done
\* ("reading", "drained", "finished"), or only ever calls Read with one
\* name-bound variable ("named", and "ndrained" once Read has met the end of
\* the input): the script after Read(arg) has returned ok
ReadScript(arg, ok, w) ==
  IF /\ hist.script \in {"fresh", "reading"}
     /\ arg.kind = "ptr" /\ IndexBound(arg.type)
     /\ (hist.script = "reading" => arg = hist.scriptArg)
     /\ hist.ctorErr = NilErr /\ ~w.panicked
     /\ w.prod # prod =>
          /\ ~NonEOF(w.prod.last.err)
          /\ w.prod.last.err = NilErr /\ w.prod.rows # prod.rows
               => GoodRow(arg.type, w.prod.last.line)
  THEN IF ok THEN "reading" ELSE "drained"
  ELSE IF /\ hist.script \in {"fresh", "named"}
          /\ arg.kind = "ptr" /\ Binding(arg.type) = "name"
          /\ (hist.script = "named" => arg = hist.scriptArg)
  THEN IF ok THEN "named"
       ELSE IF hist.script = "named" /\ w.r.err = EOF THEN "ndrained" ELSE "off"
  ELSE "off"

\* the script after Done has returned
DoneScript == IF hist.script = "drained" THEN "finished" ELSE "off"

NoFin == [called |-> FALSE]

\* the call did not end on a result of the visitor
NoVisit == [kind |-> "no visit"]

\* hist after a step that does not return to the caller
Progress(w, fin) ==
  [hist EXCEPT !.recorded = @ \/ NonEOF(w.r.err),
               !.clean = w.clean,
               !.dec = w.dec,
               !.hdr = w.hdr,
               !.rowOne = @ \/ (w.dec.valid /\ w.dec.handed /\ w.r.lineno = 1),
               !.anyDone = IF ~fin.called \/ @.seen THEN @
                           ELSE IF r.closer /\ stream.closeErr # NilErr
                           THEN [seen |-> TRUE, before |-> fin.before, ret |-> fin.ret]
                           ELSE [seen |-> TRUE, before |-> NilErr, ret |-> NilErr]]

\* hist after operation op has returned ret to the caller; t is the row type
\* of its argument (NilArg if the argument was refused)
Returned(op, arg, t, script, ret, w, fin) ==
  [Progress(w, fin) EXCEPT
     !.lastOp = op, !.lastRet = ret,
     !.lastBinding = IF t = NilArg \/ op # "Read" \/ ret.ok THEN "none" ELSE Binding(t),
     !.prev = IF op = "Done" /\ hist.lastOp = "Done" THEN [op |-> "Done", ret |-> hist.lastRet]
              ELSE IF op = "Read" /\ hist.lastOp = "Read" /\ ~hist.lastRet.ok
              THEN [op |-> "Read false", lineno |-> r.lineno, err |-> r.err]
              ELSE [op |-> "other"],
     !.stop = NoVisit,
     !.owed = 0,
     !.seen = IF hist.ctorErr # NilErr THEN @ \cup {op} ELSE @,
     !.firstOf = op \notin hist.seen,
     !.scriptArg = IF script \in {"reading", "named"} THEN arg ELSE NilArg,
     !.nTrue = IF script = "off" THEN 0 ELSE IF op = "Read" /\ ret.ok THEN @ + 1 ELSE @,
     !.script = script,
     !.doneCalls = IF op = "Done" /\ @ < 2 THEN @ + 1 ELSE @,
     !.firstDoneRet = IF op = "Done" /\ hist.doneCalls = 0 THEN ret.err ELSE @,
     !.onlyDoneSince = IF op = "Done" THEN (hist.doneCalls = 0 \/ @) ELSE FALSE]

\* hist after a Loop or ReadAll call has reached its for statement
Entered(w) == [Progress(w, NoFin) EXCEPT !.script = "off", !.nTrue = 0, !.stop = NoVisit]

\* a call by the caller begins
Called(h) == [h EXCEPT !.calls = @ + 1]
CanCall == pc = "idle" /\ ~panicked /\ hist.calls < MaxCalls

\* a Loop or ReadAll that returns the recorded error without calling Done
FinishWithoutDone(w) ==
  [w |-> w, stream |-> stream, ret |-> nonEOFError(w.r), fin |-> NoFin]

\* r.Done() at the end of a call: the world and the stream after it
Finish(w) ==
  LET finished(d) ==
        [w |-> [w EXCEPT !.r = d.r,
                         !.clean = @ /\ (d.stream = stream \/ stream.closeErr = NilErr)],
         stream |-> d.stream,
         ret |-> d.ret,
         fin |-> [called |-> TRUE, before |-> w.r.err, ret |-> d.ret]]
  IN finished(Done(w.r, stream))

(***************************************************************************)
(* Reader.Read                                                             *)
(***************************************************************************)
\* Read without its first check
ReadGuardOff(rr) == FALSE

\* "if r.err != nil { return false }"
ReadGuard(rr) == rr.err # NilErr

\* r.readLine() and decode of Read, for the decoder d and the variable target
ReadRow(w, d, target) ==
  UNION {IF x.panicked \/ x.r.err # NilErr
         THEN {[w |-> x, e |-> e, ok |-> FALSE]}
         ELSE {[w |-> [Decoded(x, d, dd, dd.err = NilErr, "Read") EXCEPT !.r.err = dd.err],
                e |-> Var(target.type, dd.out),
                ok |-> dd.err = NilErr] : dd \in decode(d, x.r.cur, target.val)}
         : x \in ReadLine(w)}

\* every (world, value of the caller's variable, result) a call Read(arg) can end in
ReadOutcomes(arg) ==
  LET false(x) == {[w |-> x, e |-> e, ok |-> FALSE]}
      target == IF e.type = arg.type THEN e ELSE Var(arg.type, ZeroValue(arg.type))
  IN IF ReadGuard(r) THEN false(World)
     ELSE IF arg.kind = "nil" THEN false(Fail(World, ErrArg("Read", "must not be nil")))
     ELSE IF arg.kind # "ptr" THEN false(Fail(World, ErrArg("Read", "must be a pointer")))
     ELSE IF Kind(arg.type) \notin {"struct", "slice"}
     THEN false(Fail(World, ErrArg("Read", "must be a pointer to a struct or a slice")))
     ELSE UNION {IF nd.err = ErrPanic
                 THEN false([World EXCEPT !.panicked = TRUE, !.clean = FALSE])
                 ELSE IF nd.err # NilErr THEN false(Fail(World, nd.err))
                 ELSE UNION {IF h.stop THEN false(h.w) ELSE ReadRow(h.w, h.dec, target)
                             : h \in HeaderStep(World, nd.dec, FALSE)}
                 : nd \in {newDecoder(r.opt, RowType(arg.type))}}

Read(arg) ==
  /\ CanCall
  /\ \E res \in ReadOutcomes(arg) :
       /\ r' = res.w.r
       /\ prod' = res.w.prod
       /\ panicked' = res.w.panicked
       /\ e' = res.e
       /\ hist' = Called(Returned("Read", arg, IF arg.kind = "ptr" THEN arg.type ELSE NilArg,
                                   ReadScript(arg, res.ok, res.w), Ret(res.ok, NilErr),
                                   res.w, NoFin))
  /\ s' = NoVar
  /\ visits' = <<>>
  /\ UNCHANGED <<stream, pc, call, probe>>

(***************************************************************************)
(* Reader.Done, called by the caller                                       *)
(***************************************************************************)
DoneCall ==
  /\ CanCall
  /\ \E f \in {Finish(World)} :
       /\ r' = f.w.r
       /\ stream' = f.stream
       /\ hist' = Called(Returned("Done", NilArg, NilArg, DoneScript, Ret(TRUE, f.ret),
                                   f.w, f.fin))
  /\ UNCHANGED <<prod, pc, call, e, s, visits, panicked, probe>>

(***************************************************************************)
(* Reader.Loop: LoopCall runs the call up to the for statement, LoopIter   *)
(* one iteration; the step that leaves the function runs the deferred Done.*)
(***************************************************************************)
NoCall == [dec |-> NoDecoder, arg |-> NilArg]

\* "if r.err != nil { return }"
LoopGuard(rr) == rr.err # NilErr

LoopStart(body) ==
  LET stop(x) == {[w |-> x, dec |-> NoDecoder, stop |-> TRUE]} IN
  IF LoopGuard(r) THEN stop(World)
  ELSE IF LoopCheck(body) # NilErr THEN stop(Fail(World, LoopCheck(body)))
  ELSE UNION {IF nd.err = ErrPanic THEN stop([World EXCEPT !.panicked = TRUE, !.clean = FALSE])
              ELSE IF nd.err # NilErr THEN stop(Fail(World, nd.err))
              ELSE HeaderStep(World, nd.dec, FALSE)
              : nd \in {newDecoder(r.opt, RowType(body.in[1].type))}}

\* what a call of body can return
VisitorReturns(body) ==
  IF body.out = <<>> THEN {[kind |-> "none"]}
  ELSE IF body.out[1] = "bool" THEN {[kind |-> "true"], [kind |-> "false"]}
  ELSE {NilErr, Break, VisitorError, EOF}

Continues(v) == v.kind \in {"none", "true", "nil"}

\* Loop that records every error body returned, Break too
VisitorErrWithBreak(rr, body, v) ==
  IF body.out # <<>> /\ body.out[1] = "error" /\ v # NilErr
  THEN [rr EXCEPT !.err = v] ELSE rr

\* the error Loop records for what body returned: "if err != Break { r.err = err }"
VisitorErr(rr, body, v) ==
  IF body.out # <<>> /\ body.out[1] = "error" /\ v # NilErr /\ v # Break
  THEN [rr EXCEPT !.err = v] ELSE rr

\* one iteration of the for statement of Loop
LoopBody(w, c) ==
  UNION {IF x.r.err # NilErr
         THEN {[w |-> x, visit |-> <<>>, cont |-> FALSE, v |-> NoVisit]}
         ELSE UNION {IF dd.err # NilErr
                     THEN {[w |-> [Decoded(x, c.dec, dd, FALSE, "Loop") EXCEPT !.r.err = dd.err],
                            visit |-> <<>>, cont |-> FALSE, v |-> NoVisit]}
                     ELSE {[w |-> [Decoded(x, c.dec, dd, TRUE, "Loop") EXCEPT
                                     !.r = VisitorErr(@, c.arg, v),
                                     !.clean = @ /\ VisitorErr(x.r, c.arg, v) = x.r],
                            visit |-> <<[rec |-> dd.out, lineno |-> x.r.lineno]>>,
                            cont |-> Continues(v), v |-> v] : v \in VisitorReturns(c.arg)}
                     : dd \in decode(c.dec, x.r.cur, ZeroValue(c.arg.in[1].type))}
         : x \in ReadLine(w)}

\* the row type of the argument of Loop, NilArg if Loop refuses the argument
LoopType(body) == IF LoopCheck(body) = NilErr THEN body.in[1].type ELSE NilArg

LoopCall(body) ==
  /\ CanCall
  /\ \E st \in LoopStart(body) :
       IF st.stop
       THEN \E f \in {Finish(st.w)} :
              /\ r' = f.w.r /\ prod' = f.w.prod /\ stream' = f.stream
              /\ panicked' = st.w.panicked
              /\ hist' = Called(IF st.w.panicked THEN Progress(f.w, f.fin)
                                ELSE Returned("Loop", body, LoopType(body), "off",
                                              Ret(TRUE, f.ret), f.w, f.fin))
              /\ UNCHANGED <<pc, call>>
       ELSE /\ r' = st.w.r /\ prod' = st.w.prod
            /\ pc' = "Loop" /\ call' = [dec |-> st.dec, arg |-> body]
            /\ hist' = Called(Entered(st.w))
            /\ UNCHANGED <<stream, panicked>>
  /\ visits' = <<>>
  /\ e' = NoVar
  /\ s' = NoVar
  /\ UNCHANGED probe

LoopIter ==
  /\ pc = "Loop"
  /\ \E st \in LoopBody(World, call) :
       /\ visits' = visits \o st.visit
       /\ IF st.cont
          THEN /\ r' = st.w.r /\ prod' = st.w.prod
               /\ hist' = Progress(st.w, NoFin)
               /\ UNCHANGED <<stream, pc, call>>
          ELSE \E f \in {Finish(st.w)} :
                 /\ r' = f.w.r /\ prod' = f.w.prod /\ stream' = f.stream
                 /\ pc' = "idle" /\ call' = NoCall
                 /\ hist' = [Returned("Loop", call.arg, call.arg.in[1].type, "off",
                                      Ret(TRUE, f.ret), f.w, f.fin) EXCEPT !.stop = st.v]
  /\ UNCHANGED <<e, s, panicked, probe>>

(***************************************************************************)
(* Reader.ReadAll: ReadAllCall runs the call up to the for statement,      *)
(* ReadAllIter one iteration; leaving the function runs the deferred Done. *)
(***************************************************************************)
ReadAllStart(arg) ==
  LET stop(x) == {[w |-> x, dec |-> NoDecoder, stop |-> TRUE]} IN
  IF ReadAllCheck(arg) # NilErr THEN stop(Fail(World, ReadAllCheck(arg)))
  ELSE UNION {IF nd.err = ErrPanic THEN stop([World EXCEPT !.panicked = TRUE, !.clean = FALSE])
              ELSE IF nd.err # NilErr THEN stop(Fail(World, nd.err))
              ELSE HeaderStep(World, nd.dec, TRUE)
              : nd \in {newDecoder(r.opt, RowType(arg.type.elem))}}

\* what the iteration appends to *s: "v.Set(reflect.Append(v, p.Elem()))"
Appended(dd) == <<dd.out>>

\* one iteration of the for statement of ReadAll
ReadAllBody(w, c) ==
  UNION {IF x.panicked \/ x.r.err # NilErr
         THEN {[w |-> x, add |-> <<>>, cont |-> FALSE, good |-> 0]}
         ELSE {[w |-> [Decoded(x, c.dec, dd, dd.err = NilErr, "ReadAll") EXCEPT
                         !.r.err = IF dd.err # NilErr THEN dd.err ELSE @],
                add |-> Appended(dd),
                cont |-> dd.err = NilErr,
                good |-> IF dd.err = NilErr THEN 1 ELSE 0]
               : dd \in decode(c.dec, x.r.cur, ZeroValue(c.arg.type.elem))}
         : x \in ReadLine(w)}

\* the row type of the argument of ReadAll, NilArg if ReadAll refuses the argument
ReadAllType(arg) == IF ReadAllCheck(arg) = NilErr THEN arg.type.elem ELSE NilArg

ReadAllCall(arg) ==
  /\ CanCall
  /\ \E st \in ReadAllStart(arg) :
       IF st.stop
       THEN \E f \in {Finish(st.w)} :
              /\ r' = f.w.r /\ prod' = f.w.prod /\ stream' = f.stream
              /\ panicked' = st.w.panicked
              /\ hist' = Called(IF st.w.panicked THEN Progress(f.w, f.fin)
                                ELSE [Returned("ReadAll", arg, ReadAllType(arg), "off",
                                               Ret(TRUE, f.ret), f.w, f.fin)
                                      EXCEPT !.owed = IF arg.kind = "ptr" /\ s.type = arg.type
                                                      THEN Len(s.val) ELSE 0])
              /\ s' = IF arg.kind = "ptr" /\ s.type = arg.type THEN s ELSE NoVar
              /\ UNCHANGED <<pc, call>>
       ELSE /\ r' = st.w.r /\ prod' = st.w.prod
            /\ pc' = "ReadAll" /\ call' = [dec |-> st.dec, arg |-> arg]
            /\ s' = IF s.type = arg.type THEN s ELSE Var(arg.type, <<>>)
            /\ hist' = Called([Entered(st.w) EXCEPT
                                !.owed = IF s.type = arg.type THEN Len(s.val) ELSE 0])
            /\ UNCHANGED <<stream, panicked>>
  /\ e' = NoVar
  /\ visits' = <<>>
  /\ UNCHANGED probe

ReadAllIter ==
  /\ pc = "ReadAll"
  /\ \E st \in ReadAllBody(World, call) :
       /\ s' = [s EXCEPT !.val = @ \o st.add]
       /\ IF st.cont
          THEN /\ r' = st.w.r /\ prod' = st.w.prod
               /\ hist' = [Progress(st.w, NoFin) EXCEPT !.owed = @ + st.good]
               /\ UNCHANGED <<stream, pc, call, panicked>>
          ELSE \E f \in {Finish(st.w)} :
                 /\ r' = f.w.r /\ prod' = f.w.prod /\ stream' = f.stream
                 /\ pc' = "idle" /\ call' = NoCall
                 /\ panicked' = st.w.panicked
                 /\ hist' = IF st.w.panicked THEN Progress(f.w, f.fin)
                            ELSE [Returned("ReadAll", call.arg, call.arg.type.elem, "off",
                                           Ret(TRUE, f.ret), f.w, f.fin)
                                  EXCEPT !.owed = hist.owed + st.good]
  /\ UNCHANGED <<e, visits, probe>>

(***************************************************************************)
(* The specification: a constructor call, then any calls of the caller.    *)
(***************************************************************************)
Constructions ==
  {[r |-> NewReader(opts), given |-> FALSE] : opts \in OptionLists}
  \cup {[r |-> NewReadCloser(opts), given |-> TRUE] : opts \in OptionLists}
  \cup {[r |-> NewReaderFile(opened, opts), given |-> opened]
        : opened \in BOOLEAN, opts \in OptionLists}

Init ==
  \E c \in Constructions, closeErr \in {NilErr, CloseError} :
    /\ (~c.given => closeErr = NilErr)
    /\ r = c.r
    /\ stream = [given |-> c.given, closed |-> 0, closeErr |-> closeErr]
    /\ prod = [n |-> 0, rows |-> 0, width |-> 0, eof |-> FALSE, touched |-> FALSE,
               last |-> [line |-> <<>>, err |-> NilErr]]
    /\ pc = "idle"
    /\ call = NoCall
    /\ e = NoVar
    /\ s = NoVar
    /\ visits = <<>>
    /\ panicked = FALSE
    /\ probe = NoProbe
    /\ hist = [lastOp |-> "new", lastRet |-> Ret(TRUE, NilErr), lastBinding |-> "none",
               prev |-> [op |-> "other"], scriptArg |-> NilArg,
               calls |-> 0, seen |-> {}, firstOf |-> FALSE, nTrue |-> 0, script |-> "fresh",
               doneCalls |-> 0, firstDoneRet |-> NilErr, onlyDoneSince |-> FALSE,
               anyDone |-> [seen |-> FALSE, before |-> NilErr, ret |-> NilErr],
               ctorErr |-> c.r.err, recorded |-> NonEOF(c.r.err),
               clean |-> c.r.err = NilErr, dec |-> NoDecode, hdr |-> NoHeader,
               stop |-> NoVisit, owed |-> 0, rowOne |-> FALSE]

Next ==
  \/ \E arg \in ReadArgs : Read(arg)
  \/ DoneCall
  \/ \E body \in LoopArgs : LoopCall(body)
  \/ LoopIter
  \/ \E arg \in ReadAllArgs : ReadAllCall(arg)
  \/ ReadAllIter

Spec == Init /\ [][Next]_vars

(***************************************************************************)
(* The analysis and the decoders on their own: a probe is a shape with a   *)
(* header row and a permutation of its columns, handed to consumeHeader    *)
(* and then, row by row, to decode, or a struct shape with an Option,      *)
(* handed to newStructDecoder.                                             *)
(***************************************************************************)
\* the columns of row in the order p
Permute(row, p) == [i \in 1..Len(row) |-> row[p[i]]]

\* the shapes Named and struct { B string `name:"a"` } with the header rows
\* in which every name of the shape is a column, and the permutations of the
\* columns
HeaderProbes ==
  {[kind |-> "header", shape |-> x[1], header |-> x[2], perm |-> x[3], resolved |-> FALSE,
    plan |-> [dec |-> NoDecoder, err |-> NilErr], planP |-> [dec |-> NoDecoder, err |-> NilErr],
    out |-> <<>>, outP |-> <<>>, reads |-> {}]
   : x \in {y \in {Named, StructOf(<<Field("B", "string", <<"a">>, <<>>, "")>>)}
                    \X (UNION {[1..w -> Cells] : w \in 1..MaxCols})
                    \X Orders(1..MaxCols) :
              /\ \A i \in 1..NumField(y[1]) :
                   \E c \in 1..Len(y[2]) : y[2][c] = y[1].fields[i].name
              /\ \A i \in 1..MaxCols : i > Len(y[2]) => y[3][i] = i}}

\* the struct shapes of up to MaxFields fields A, B, ...: each field has no
\* tag, a name tag, an index tag (a numeral, a letter or a negative number)
\* or both tags, and is an int, a string with enc:"hex", an int or a string
\* with enc:"bracket", or of a type without a converter; the Option is empty
\* or defines the encoding "bracket" as a func(string) (string, error)
ShapeProbes ==
  {[kind |-> "shape", opt |-> x[1], analysed |-> FALSE,
    shape |-> StructOf([i \in 1..Len(x[2]) |->
                          Field(<<"A", "B", "C", "D">>[i], x[2][i][2][1], x[2][i][1][1],
                                x[2][i][1][2], x[2][i][2][2])]),
    res |-> [dec |-> NoDecoder, err |-> NilErr]]
   : x \in {ZeroOption, [ZeroOption EXCEPT !.Decoders = MapOf([n \in {"bracket"} |-> BracketConv])]}
           \X UNION {[1..n ->
                        {<<<<>>, <<>>>>, <<<<"a">>, <<>>>>, <<<<>>, <<"0">>>>, <<<<>>, <<"a">>>>,
                         <<<<>>, <<"-", "1">>>>, <<<<"a">>, <<"0">>>>}
                        \X {<<"int", "">>, <<"composite", "">>, <<"string", "hex">>,
                            <<"int", "bracket">>, <<"string", "bracket">>}]
                     : n \in 1..MaxFields}}

\* struct { A T `index:"0" enc:"..."` } for a field type T and an encoding
\* name (none, a built-in one, "bracket" or an undefined one), with an Option
\* whose Decoders is nil or holds one entry, for "hex" or for "bracket": nil
\* or a value of any of the signatures below; and whose TypeDecoders is nil,
\* empty or holds one entry, for int, string or the composite type
ConverterProbes ==
  {[kind |-> "converter", analysed |-> FALSE,
    opt |-> [ZeroOption EXCEPT !.Decoders = x[1], !.TypeDecoders = x[2]],
    shape |-> StructOf(<<Field("A", x[3], <<>>, <<"0">>, x[4])>>),
    res |-> [dec |-> NoDecoder, err |-> NilErr]]
   : x \in ({NilMap} \cup
            {MapOf([n \in {y[1]} |-> y[2]])
             : y \in {"hex", "bracket"}
                     \X ({NoConv} \cup
                         {UserConv("fail", z[1], z[2], z[3])
                          : z \in BOOLEAN
                                  \X {<<>>, <<"string">>, <<"int">>, <<"string", "string">>}
                                  \X {<<>>, <<"string">>, <<"string", "error">>,
                                      <<"int", "error">>, <<"string", "string">>,
                                      <<"int", "int">>}})})
           \X {NilMap, MakeMap, MapOf([n \in {"int"} |-> FailConv]),
               MapOf([n \in {"int"} |-> BracketConv]),
               MapOf([n \in {"string"} |-> BracketConv]),
               MapOf([n \in {"composite"} |->
                        UserConv("fail", TRUE, <<"string">>, <<"composite", "error">>)])}
           \X {"int", "string", "composite"}
           \X {"", "hex", "bracket", "undef"}}

\* an integer field type, an encoding name or none, and a field text: the
\* numerals of the examples and, for each width w of 8, 16, 32 and 64 bits,
\* 2^(w-1)-1, 2^(w-1), 2^(w-1)+1, 2^w-1 and 2^w written in base 8, 10 and 16,
\* with and without a minus sign, and with the prefixes 0 and 0x
NumeralProbes ==
  {[kind |-> "numeral", type |-> x[1], enc |-> x[2], text |-> x[3], converted |-> FALSE,
    res |-> [neg |-> FALSE, n |-> <<0, 0, 0, 0, 0>>, err |-> "none"]]
   : x \in (IntTypes \cup UintTypes) \X {"", "hex", "oct", "deci"} \X
  {<<"0", "1", "0">>, <<"0", "2", "1">>, <<"0", "x", "f", "f">>, <<"0", "1", "7">>,
   <<"1", "0">>, <<"f", "f">>, <<"0", "x", "1", "0">>, <<"0", "8">>, <<"0">>, <<"7">>,
   <<"-", "0", "1", "0">>, <<"0", "x">>, <<"1", "7", "7">>, <<"-", "1", "7", "7">>,
   <<"1", "2", "7">>, <<"-", "1", "2", "7">>, <<"7", "f">>, <<"-", "7", "f">>,
   <<"0", "x", "7", "f">>, <<"0", "1", "7", "7">>, <<"2", "0", "0">>, <<"-", "2", "0", "0">>,
   <<"1", "2", "8">>, <<"-", "1", "2", "8">>, <<"8", "0">>, <<"-", "8", "0">>,
   <<"0", "x", "8", "0">>, <<"0", "2", "0", "0">>, <<"2", "0", "1">>, <<"-", "2", "0", "1">>,
   <<"1", "2", "9">>, <<"-", "1", "2", "9">>, <<"8", "1">>, <<"-", "8", "1">>,
   <<"0", "x", "8", "1">>, <<"0", "2", "0", "1">>, <<"3", "7", "7">>, <<"-", "3", "7", "7">>,
   <<"2", "5", "5">>, <<"-", "2", "5", "5">>, <<"-", "f", "f">>, <<"0", "3", "7", "7">>,
   <<"4", "0", "0">>, <<"-", "4", "0", "0">>, <<"2", "5", "6">>, <<"-", "2", "5", "6">>,
   <<"1", "0", "0">>, <<"-", "1", "0", "0">>, <<"0", "x", "1", "0", "0">>,
   <<"0", "4", "0", "0">>, <<"7", "7", "7", "7", "7">>, <<"-", "7", "7", "7", "7", "7">>,
   <<"3", "2", "7", "6", "7">>, <<"-", "3", "2", "7", "6", "7">>, <<"7", "f", "f", "f">>,
   <<"-", "7", "f", "f", "f">>, <<"0", "x", "7", "f", "f", "f">>,
   <<"0", "7", "7", "7", "7", "7">>, <<"1", "0", "0", "0", "0", "0">>,
   <<"-", "1", "0", "0", "0", "0", "0">>, <<"3", "2", "7", "6", "8">>,
   <<"-", "3", "2", "7", "6", "8">>, <<"8", "0", "0", "0">>, <<"-", "8", "0", "0", "0">>,
   <<"0", "x", "8", "0", "0", "0">>, <<"0", "1", "0", "0", "0", "0", "0">>,
   <<"1", "0", "0", "0", "0", "1">>, <<"-", "1", "0", "0", "0", "0", "1">>,
   <<"3", "2", "7", "6", "9">>, <<"-", "3", "2", "7", "6", "9">>, <<"8", "0", "0", "1">>,
   <<"-", "8", "0", "0", "1">>, <<"0", "x", "8", "0", "0", "1">>,
   <<"0", "1", "0", "0", "0", "0", "1">>, <<"1", "7", "7", "7", "7", "7">>,
   <<"-", "1", "7", "7", "7", "7", "7">>, <<"6", "5", "5", "3", "5">>,
   <<"-", "6", "5", "5", "3", "5">>, <<"f", "f", "f", "f">>, <<"-", "f", "f", "f", "f">>,
   <<"0", "x", "f", "f", "f", "f">>, <<"0", "1", "7", "7", "7", "7", "7">>,
   <<"2", "0", "0", "0", "0", "0">>, <<"-", "2", "0", "0", "0", "0", "0">>,
   <<"6", "5", "5", "3", "6">>, <<"-", "6", "5", "5", "3", "6">>, <<"1", "0", "0", "0", "0">>,
   <<"-", "1", "0", "0", "0", "0">>, <<"0", "x", "1", "0", "0", "0", "0">>,
   <<"0", "2", "0", "0", "0", "0", "0">>,
   <<"1", "7", "7", "7", "7", "7", "7", "7", "7", "7", "7">>,
   <<"-", "1", "7", "7", "7", "7", "7", "7", "7", "7", "7", "7">>,
   <<"2", "1", "4", "7", "4", "8", "3", "6", "4", "7">>,
   <<"-", "2", "1", "4", "7", "4", "8", "3", "6", "4", "7">>,
   <<"7", "f", "f", "f", "f", "f", "f", "f">>, <<"-", "7", "f", "f", "f", "f", "f", "f", "f">>,
   <<"0", "x", "7", "f", "f", "f", "f", "f", "f", "f">>,
   <<"0", "1", "7", "7", "7", "7", "7", "7", "7", "7", "7", "7">>,
   <<"2", "0", "0", "0", "0", "0", "0", "0", "0", "0", "0">>,
   <<"-", "2", "0", "0", "0", "0", "0", "0", "0", "0", "0", "0">>,
   <<"2", "1", "4", "7", "4", "8", "3", "6", "4", "8">>,
   <<"-", "2", "1", "4", "7", "4", "8", "3", "6", "4", "8">>,
   <<"8", "0", "0", "0", "0", "0", "0", "0">>, <<"-", "8", "0", "0", "0", "0", "0", "0", "0">>,
   <<"0", "x", "8", "0", "0", "0", "0", "0", "0", "0">>,
   <<"0", "2", "0", "0", "0", "0", "0", "0", "0", "0", "0", "0">>,
   <<"2", "0", "0", "0", "0", "0", "0", "0", "0", "0", "1">>,
   <<"-", "2", "0", "0", "0", "0", "0", "0", "0", "0", "0", "1">>,
   <<"2", "1", "4", "7", "4", "8", "3", "6", "4", "9">>,
   <<"-", "2", "1", "4", "7", "4", "8", "3", "6", "4", "9">>,
   <<"8", "0", "0", "0", "0", "0", "0", "1">>, <<"-", "8", "0", "0", "0", "0", "0", "0", "1">>,
   <<"0", "x", "8", "0", "0", "0", "0", "0", "0", "1">>,
   <<"0", "2", "0", "0", "0", "0", "0", "0", "0", "0", "0", "1">>,
   <<"3", "7", "7", "7", "7", "7", "7", "7", "7", "7", "7">>,
   <<"-", "3", "7", "7", "7", "7", "7", "7", "7", "7", "7", "7">>,
   <<"4", "2", "9", "4", "9", "6", "7", "2", "9", "5">>,
   <<"-", "4", "2", "9", "4", "9", "6", "7", "2", "9", "5">>,
   <<"f", "f", "f", "f", "f", "f", "f", "f">>, <<"-", "f", "f", "f", "f", "f", "f", "f", "f">>,
   <<"0", "x", "f", "f", "f", "f", "f", "f", "f", "f">>,
   <<"0", "3", "7", "7", "7", "7", "7", "7", "7", "7", "7", "7">>,
   <<"4", "0", "0", "0", "0", "0", "0", "0", "0", "0", "0">>,
   <<"-", "4", "0", "0", "0", "0", "0", "0", "0", "0", "0", "0">>,
   <<"4", "2", "9", "4", "9", "6", "7", "2", "9", "6">>,
   <<"-", "4", "2", "9", "4", "9", "6", "7", "2", "9", "6">>,
   <<"1", "0", "0", "0", "0", "0", "0", "0", "0">>,
   <<"-", "1", "0", "0", "0", "0", "0", "0", "0", "0">>,
   <<"0", "x", "1", "0", "0", "0", "0", "0", "0", "0", "0">>,
   <<"0", "4", "0", "0", "0", "0", "0", "0", "0", "0", "0", "0">>,
   <<"7", "7", "7", "7", "7", "7", "7", "7", "7", "7", "7", "7", "7", "7", "7", "7", "7", "7", "7", "7", "7">>,
   <<"-", "7", "7", "7", "7", "7", "7", "7", "7", "7", "7", "7", "7", "7", "7", "7", "7", "7", "7", "7", "7", "7">>,
   <<"9", "2", "2", "3", "3", "7", "2", "0", "3", "6", "8", "5", "4", "7", "7", "5", "8", "0", "7">>,
   <<"-", "9", "2", "2", "3", "3", "7", "2", "0", "3", "6", "8", "5", "4", "7", "7", "5", "8", "0", "7">>,
   <<"7", "f", "f", "f", "f", "f", "f", "f", "f", "f", "f", "f", "f", "f", "f", "f">>,
   <<"-", "7", "f", "f", "f", "f", "f", "f", "f", "f", "f", "f", "f", "f", "f", "f", "f">>,
   <<"0", "x", "7", "f", "f", "f", "f", "f", "f", "f", "f", "f", "f", "f", "f", "f", "f", "f">>,
   <<"0", "7", "7", "7", "7", "7", "7", "7", "7", "7", "7", "7", "7", "7", "7", "7", "7", "7", "7", "7", "7", "7">>,
   <<"1", "0", "0", "0", "0", "0", "0", "0", "0", "0", "0", "0", "0", "0", "0", "0", "0", "0", "0", "0", "0", "0">>,
   <<"-", "1", "0", "0", "0", "0", "0", "0", "0", "0", "0", "0", "0", "0", "0", "0", "0", "0", "0", "0", "0", "0", "0">>,
   <<"9", "2", "2", "3", "3", "7", "2", "0", "3", "6", "8", "5", "4", "7", "7", "5", "8", "0", "8">>,
   <<"-", "9", "2", "2", "3", "3", "7", "2", "0", "3", "6", "8", "5", "4", "7", "7", "5", "8", "0", "8">>,
   <<"8", "0", "0", "0", "0", "0", "0", "0", "0", "0", "0", "0", "0", "0", "0", "0">>,
   <<"-", "8", "0", "0", "0", "0", "0", "0", "0", "0", "0", "0", "0", "0", "0", "0", "0">>,
   <<"0", "x", "8", "0", "0", "0", "0", "0", "0", "0", "0", "0", "0", "0", "0", "0", "0", "0">>,
   <<"0", "1", "0", "0", "0", "0", "0", "0", "0", "0", "0", "0", "0", "0", "0", "0", "0", "0", "0", "0", "0", "0", "0">>,
   <<"1", "0", "0", "0", "0", "0", "0", "0", "0", "0", "0", "0", "0", "0", "0", "0", "0", "0", "0", "0", "0", "1">>,
   <<"-", "1", "0", "0", "0", "0", "0", "0", "0", "0", "0", "0", "0", "0", "0", "0", "0", "0", "0", "0", "0", "0", "1">>,
   <<"9", "2", "2", "3", "3", "7", "2", "0", "3", "6", "8", "5", "4", "7", "7", "5", "8", "0", "9">>,
   <<"-", "9", "2", "2", "3", "3", "7", "2", "0", "3", "6", "8", "5", "4", "7", "7", "5", "8", "0", "9">>,
   <<"8", "0", "0", "0", "0", "0", "0", "0", "0", "0", "0", "0", "0", "0", "0", "1">>,
   <<"-", "8", "0", "0", "0", "0", "0", "0", "0", "0", "0", "0", "0", "0", "0", "0", "1">>,
   <<"0", "x", "8", "0", "0", "0", "0", "0", "0", "0", "0", "0", "0", "0", "0", "0", "0", "1">>,
   <<"0", "1", "0", "0", "0", "0", "0", "0", "0", "0", "0", "0", "0", "0", "0", "0", "0", "0", "0", "0", "0", "0", "1">>,
   <<"1", "7", "7", "7", "7", "7", "7", "7", "7", "7", "7", "7", "7", "7", "7", "7", "7", "7", "7", "7", "7", "7">>,
   <<"-", "1", "7", "7", "7", "7", "7", "7", "7", "7", "7", "7", "7", "7", "7", "7", "7", "7", "7", "7", "7", "7", "7">>,
   <<"1", "8", "4", "4", "6", "7", "4", "4", "0", "7", "3", "7", "0", "9", "5", "5", "1", "6", "1", "5">>,
   <<"-", "1", "8", "4", "4", "6", "7", "4", "4", "0", "7", "3", "7", "0", "9", "5", "5", "1", "6", "1", "5">>,
   <<"f", "f", "f", "f", "f", "f", "f", "f", "f", "f", "f", "f", "f", "f", "f", "f">>,
   <<"-", "f", "f", "f", "f", "f", "f", "f", "f", "f", "f", "f", "f", "f", "f", "f", "f">>,
   <<"0", "x", "f", "f", "f", "f", "f", "f", "f", "f", "f", "f", "f", "f", "f", "f", "f", "f">>,
   <<"0", "1", "7", "7", "7", "7", "7", "7", "7", "7", "7", "7", "7", "7", "7", "7", "7", "7", "7", "7", "7", "7", "7">>,
   <<"2", "0", "0", "0", "0", "0", "0", "0", "0", "0", "0", "0", "0", "0", "0", "0", "0", "0", "0", "0", "0", "0">>,
   <<"-", "2", "0", "0", "0", "0", "0", "0", "0", "0", "0", "0", "0", "0", "0", "0", "0", "0", "0", "0", "0", "0", "0">>,
   <<"1", "8", "4", "4", "6", "7", "4", "4", "0", "7", "3", "7", "0", "9", "5", "5", "1", "6", "1", "6">>,
   <<"-", "1", "8", "4", "4", "6", "7", "4", "4", "0", "7", "3", "7", "0", "9", "5", "5", "1", "6", "1", "6">>,
   <<"1", "0", "0", "0", "0", "0", "0", "0", "0", "0", "0", "0", "0", "0", "0", "0", "0">>,
   <<"-", "1", "0", "0", "0", "0", "0", "0", "0", "0", "0", "0", "0", "0", "0", "0", "0", "0">>,
   <<"0", "x", "1", "0", "0", "0", "0", "0", "0", "0", "0", "0", "0", "0", "0", "0", "0", "0", "0">>,
   <<"0", "2", "0", "0", "0", "0", "0", "0", "0", "0", "0", "0", "0", "0", "0", "0", "0", "0", "0", "0", "0", "0", "0">>}}

\* the lists of up to MaxOpts Options handed to mergeOptions, each Option
\* the zero Option or one that sets delimiters, one flag, a map (empty, with
\* one or two entries, with a nil entry) or several fields at once
MergeProbes ==
  {[kind |-> "merge", opts |-> x, passed |-> x, at |-> 0, done |-> FALSE,
    opt |-> ZeroOption, own |-> [Decoders |-> 0, TypeDecoders |-> 0], err |-> NilErr]
   : x \in UNION {[1..n ->
                     {ZeroOption,
                      [ZeroOption EXCEPT !.Comma = 9],
                      [ZeroOption EXCEPT !.Comma = 59, !.Comment = 35],
                      [ZeroOption EXCEPT !.Comment = 33],
                      [ZeroOption EXCEPT !.LazyQuotes = TRUE],
                      [ZeroOption EXCEPT !.AllowMissingFields = TRUE],
                      [ZeroOption EXCEPT !.AutoIndex = TRUE],
                      [ZeroOption EXCEPT !.AutoName = TRUE],
                      [ZeroOption EXCEPT !.Decoders = MakeMap],
                      [ZeroOption EXCEPT !.Decoders = MapOf([k \in {"hex"} |-> BracketConv])],
                      [ZeroOption EXCEPT !.Decoders = MapOf([k \in {"hex"} |-> NoConv])],
                      [ZeroOption EXCEPT
                         !.Decoders = MapOf([k \in {"hex", "bracket"} |->
                                               IF k = "hex" THEN FailConv ELSE BracketConv])],
                      [ZeroOption EXCEPT !.TypeDecoders = MapOf([k \in {"int"} |-> FailConv])],
                      [ZeroOption EXCEPT
                         !.TypeDecoders = MapOf([k \in {"int", "string"} |-> BracketConv])],
                      [ZeroOption EXCEPT
                         !.Comma = 9, !.LazyQuotes = TRUE, !.AutoName = TRUE,
                         !.Decoders = MapOf([k \in {"bracket"} |-> FailConv]),
                         !.TypeDecoders = MakeMap]}]
                  : n \in 0..MaxOpts}}

\* the instance of the last reflect.New once more, if there is one
NewCellReused(heap, v) ==
  IF heap = <<>> THEN Append(heap, v) ELSE [heap EXCEPT ![Len(heap)] = v]

\* reflect.New: one more cell on the heap, holding v; its address is the
\* length of the heap
NewCell(heap, v) == Append(heap, v)

\* the last kind of probe is a caller that has rows decoded one after the
\* other and keeps what it is given: the records a visitor of Loop receives
\* through a pointer or as values, the elements ReadAll appends, or the slice
\* that Read has stored in the caller's variable (cell 1 of the heap, a nil
\* slice at first).  A cell holds a value (val) or, for a slice variable,
\* the address of the cell with the elements of the slice (array, 0 for a
\* nil slice and for a cell that is no slice variable).
ProbeInit ==
  /\ probe \in HeaderProbes \cup ShapeProbes \cup ConverterProbes \cup NumeralProbes
                 \cup MergeProbes
                 \cup {[kind |-> "fresh", op |-> x[1], shape |-> x[2], kept |-> <<>>,
                        heap |-> IF x[1] = "Read" THEN <<[array |-> 0, val |-> <<>>]>> ELSE <<>>,
                        failed |-> FALSE, before |-> <<>>]
                       : x \in ({"LoopPointer"} \X {Entry})
                               \cup ({"LoopValue", "ReadAll"}
                                     \X {Entry, IntSlice, SliceOf("string")})
                               \cup ({"Read"} \X {IntSlice, SliceOf("string")})}
  /\ r = ZeroReader
  /\ stream = [given |-> FALSE, closed |-> 0, closeErr |-> NilErr]
  /\ prod = [n |-> 0, rows |-> 0, width |-> 0, eof |-> FALSE, touched |-> FALSE,
             last |-> [line |-> <<>>, err |-> NilErr]]
  /\ pc = "idle"
  /\ call = NoCall
  /\ e = NoVar
  /\ s = NoVar
  /\ visits = <<>>
  /\ panicked = FALSE
  /\ hist = [calls |-> 0]

\* newStructDecoder and consumeHeader, for the header and for its permutation
ConsumeHeaders ==
  /\ probe.kind = "header" /\ ~probe.resolved
  /\ \E nd \in {newDecoder(ZeroOption, probe.shape)} :
       probe' = [probe EXCEPT
                   !.resolved = TRUE,
                   !.plan = consumeHeader(nd.dec, probe.header),
                   !.planP = consumeHeader(nd.dec, Permute(probe.header, probe.perm))]
  /\ UNCHANGED <<r, prod, stream, pc, call, e, s, visits, hist, panicked>>

\* decode of one more row and of its permutation: the records and errors
\* each call can produce, and (reads) the columns whose text decode has taken
\* from a row
DecodeRows ==
  /\ probe.kind = "header" /\ probe.resolved /\ Len(probe.out) < MaxRows
  /\ \E row \in Rows(Len(probe.header)) :
       probe' = [probe EXCEPT
                   !.out = Append(@, {[err |-> x.err, out |-> x.out] :
                                      x \in decode(probe.plan.dec, row, ZeroValue(probe.shape))}),
                   !.reads = @ \cup UNION {x.reads : x \in decode(probe.plan.dec, row,
                                                                 ZeroValue(probe.shape))},
                   !.outP = Append(@, {[err |-> x.err, out |-> x.out] :
                                       x \in decode(probe.planP.dec, Permute(row, probe.perm),
                                                    ZeroValue(probe.shape))})]
  /\ UNCHANGED <<r, prod, stream, pc, call, e, s, visits, hist, panicked>>

\* newStructDecoder on the shape
Analyze ==
  /\ probe.kind \in {"shape", "converter"} /\ ~probe.analysed
  /\ probe' = [probe EXCEPT !.analysed = TRUE,
                            !.res = newStructDecoder(probe.opt, probe.shape)]
  /\ UNCHANGED <<r, prod, stream, pc, call, e, s, visits, hist, panicked>>

\* the converter of struct { A T `index:"0" enc:"..."` }, called on the text
Convert ==
  /\ probe.kind = "numeral" /\ ~probe.converted
  /\ \E nd \in {newStructDecoder(ZeroOption,
                                  StructOf(<<Field("A", probe.type, <<>>, <<"0">>,
                                                   probe.enc)>>))} :
       probe' = [probe EXCEPT
                   !.converted = TRUE,
                   !.res = IF nd.dec.converters[1].kind = "int"
                           THEN ParseIntWide(probe.text, nd.dec.converters[1].base,
                                             nd.dec.converters[1].bitSize)
                           ELSE [neg |-> FALSE] @@
                                ParseUintWide(probe.text, nd.dec.converters[1].base,
                                              nd.dec.converters[1].bitSize)]
  /\ UNCHANGED <<r, prod, stream, pc, call, e, s, visits, hist, panicked>>

\* mergeOptions: one iteration of its loop, opt.mergeOption(o), or, after the
\* last one, the return with opt.validate().  passed holds the Options of the
\* caller as they are now; own tells for each map of opt which Option of
\* the caller the map belongs to, 0 for none: a nil map and a map that
\* mergeOption has made belong to none, and the entries of b go into the map
\* that opt refers to.
Merge ==
  /\ probe.kind = "merge" /\ ~probe.done
  /\ IF probe.at = Len(probe.opts)
     THEN probe' = [probe EXCEPT !.done = TRUE, !.err = validate(probe.opt)]
     ELSE \E b \in {probe.passed[probe.at + 1]} :
          \E own \in {[f \in {"Decoders", "TypeDecoders"} |->
                         IF b[f].isnil THEN probe.own[f]
                         ELSE IF probe.opt[f].isnil THEN 0 ELSE probe.own[f]]} :
            probe' = [probe EXCEPT
                        !.at = @ + 1,
                        !.opt = mergeOption(probe.opt, b),
                        !.own = own,
                        !.passed =
                          [i \in 1..Len(probe.opts) |->
                             [probe.passed[i] EXCEPT
                                !.Decoders =
                                  IF own.Decoders = i THEN MergeMap(@, b.Decoders) ELSE @,
                                !.TypeDecoders =
                                  IF own.TypeDecoders = i THEN MergeMap(@, b.TypeDecoders)
                                  ELSE @]]]
  /\ UNCHANGED <<r, prod, stream, pc, call, e, s, visits, hist, panicked>>

\* one row decoded for the caller: Loop and ReadAll decode into
\* p := reflect.New(t), Read into the caller's variable.  The struct decoder
\* sets the fields of *out in place; the slice decoder stores a slice of its
\* own in *out.  The caller keeps the pointer p (at: its cell), a copy of
\* the record (val), or the slice (at: the cell of its elements), and
\* remembers what it was given (was).
HandOut ==
  /\ probe.kind = "fresh" /\ ~probe.failed /\ Len(probe.kept) < MaxRows
  /\ \E row \in UNION {Rows(w) : w \in 1..MaxCols} :
     \E nd \in {newDecoder(ZeroOption, probe.shape)} :
     \E h1 \in {IF probe.op = "Read" THEN probe.heap
                 ELSE NewCell(probe.heap, [array |-> 0, val |-> ZeroValue(probe.shape)])} :
     \E p \in {IF probe.op = "Read" THEN 1 ELSE Len(h1)} :
     \E cur \in {IF probe.shape.kind = "struct" \/ h1[p].array = 0 THEN h1[p].val
                  ELSE h1[h1[p].array].val} :
     \E dd \in decode(nd.dec, row, cur) :
     \E h2 \in {IF probe.shape.kind = "struct" THEN [h1 EXCEPT ![p].val = dd.out]
                 ELSE IF dd.err # NilErr /\ dd.out = cur THEN h1
                 ELSE [NewCell(h1, [array |-> 0, val |-> dd.out]) EXCEPT
                         ![p].array = Len(NewCell(h1, [array |-> 0, val |-> dd.out]))]} :
       probe' = [probe EXCEPT
                   !.heap = h2,
                   !.failed = dd.err # NilErr,
                   !.before = cur,
                   !.kept = IF dd.err # NilErr THEN @
                            ELSE Append(@, IF probe.shape.kind = "slice"
                                           THEN [at |-> h2[p].array, val |-> <<>>, was |-> dd.out]
                                           ELSE IF probe.op = "LoopPointer"
                                           THEN [at |-> p, val |-> <<>>, was |-> dd.out]
                                           ELSE [at |-> 0, val |-> dd.out, was |-> dd.out])]
  /\ UNCHANGED <<r, prod, stream, pc, call, e, s, visits, hist, panicked>>

ProbeNext ==
  \/ ConsumeHeaders
  \/ DecodeRows
  \/ Analyze
  \/ Convert
  \/ Merge
  \/ HandOut

SpecProbe == ProbeInit /\ [][ProbeNext]_vars

(***************************************************************************)
(* Properties.                                                             *)
(***************************************************************************)
ClosedOnce == stream.closed = IF r.closer THEN 1 ELSE 0

\* C1: two consecutive calls of Done return the same error, and after them
\* the owned closer has been closed exactly once (never without a closer).
C1_DoneTwice ==
  hist.lastOp = "Done" /\ hist.prev.op = "Done" =>
    hist.lastRet = hist.prev.ret /\ ClosedOnce

C1_Witness ==
  /\ hist.lastOp = "Done" /\ hist.prev.op = "Done"
  /\ r.closer /\ hist.lastRet.err = CloseError /\ stream.closed = 1

\* C2: once a non-end-of-input error has been recorded, no later call makes
\* Done (called directly or at the end of Loop and ReadAll) return nil.
C2_RecordedErrorStays ==
  hist.recorded /\ hist.lastOp \in {"Done", "Loop", "ReadAll"} => hist.lastRet.err # NilErr

\* C3: when nothing but end-of-input has happened and closing succeeds, Loop,
\* ReadAll and Done return nil, and a Read at the end of the input returns false.
C3_EndOfInputIsNoError ==
  hist.clean =>
    /\ hist.lastOp \in {"Loop", "ReadAll", "Done"} => hist.lastRet.err = NilErr
    /\ hist.lastOp = "Read" /\ prod.eof => ~hist.lastRet.ok /\ nonEOFError(r) = NilErr

C3_Witness ==
  /\ hist.clean /\ hist.lastOp = "Read" /\ hist.lastBinding = "name"
  /\ prod.eof /\ r.lineno = 0 /\ ~hist.lastRet.ok

\* C4: the first Done of a Reader whose closer fails with c returns the
\* recorded non-end-of-input error if there is one and c otherwise, and it
\* has called Close.
C4_CloseErrorOnFirstDone ==
  hist.anyDone.seen /\ r.closer /\ stream.closeErr # NilErr =>
    /\ hist.anyDone.ret = IF NonEOF(hist.anyDone.before) THEN hist.anyDone.before
                          ELSE stream.closeErr
    /\ stream.closed >= 1

C4_Witness ==
  /\ hist.anyDone.seen /\ r.closer /\ stream.closeErr = CloseError
  /\ NonEOF(hist.anyDone.before) /\ hist.anyDone.ret = hist.anyDone.before
  /\ stream.closed = 1

\* C5: a closable stream handed to NewReadCloser (or a file NewReaderFile
\* opened) has been closed exactly once after the first Done, whatever the
\* Option values were.
C5_StreamClosedOnce == stream.given /\ hist.anyDone.seen => stream.closed = 1

\* C6: on a Reader whose construction failed, the first call of each of
\* Read, Loop and ReadAll does not touch the row producer and reports the
\* construction error.
C6_ConstructionErrorReported ==
  hist.ctorErr # NilErr =>
    /\ ~panicked /\ ~prod.touched
    /\ hist.firstOf /\ hist.lastOp = "Read" =>
         ~hist.lastRet.ok /\ nonEOFError(r) = hist.ctorErr
    /\ hist.firstOf /\ hist.lastOp \in {"Loop", "ReadAll"} =>
         hist.lastRet.err = hist.ctorErr

\* C7: a Read right after a Read that returned false returns false, consumes
\* no row and leaves the recorded error as it was.
C7_ReadStaysFalse ==
  hist.lastOp = "Read" /\ hist.prev.op = "Read false" =>
    ~hist.lastRet.ok /\ r.lineno = hist.prev.lineno /\ r.err = hist.prev.err

C7_Witness ==
  /\ hist.lastOp = "Read" /\ hist.prev.op = "Read false"
  /\ r.lineno = 1 /\ r.err = EOF /\ hist.lastBinding = "index"

\* C8 as stated: after the first call of Done every later call of Done
\* returns what the first call returned, whatever was called in between, and
\* Close is not invoked again.
C8_LaterDoneSame ==
  hist.doneCalls >= 1 =>
    /\ hist.lastOp = "Done" => hist.lastRet.err = hist.firstDoneRet
    /\ ClosedOnce

\* C8 amended: after the first call of Done, a later call of Done returns
\* what the first call returned as long as no Read, Loop or ReadAll was
\* called in between; Close is not invoked again whatever is called.
C8_LaterDoneSameIfNothingBetween ==
  hist.doneCalls >= 1 =>
    /\ hist.lastOp = "Done" /\ hist.onlyDoneSince => hist.lastRet.err = hist.firstDoneRet
    /\ ClosedOnce

C8_Witness ==
  /\ hist.doneCalls = 2 /\ hist.lastOp = "Done" /\ hist.onlyDoneSince
  /\ hist.firstDoneRet # NilErr /\ r.lineno > 0 /\ stream.closed = 1

C11_MissingNamesFail ==
  hist.hdr.seen /\ hist.hdr.missing # {} =>
    /\ pc = "idle"
    /\ r.err = ErrMissing(hist.hdr.missing)
    /\ hist.lastOp = "Read" => ~hist.lastRet.ok
    /\ hist.lastOp \in {"Loop", "ReadAll"} => hist.lastRet.err = ErrMissing(hist.hdr.missing)
    /\ visits = <<>>

\* C12 as stated: for a name-bound shape and a header row in which every
\* field name occurs, permuting the columns of the header and of every data
\* row leaves the sequence of decoded records as it was.
C12_PermutedSame ==
  probe.kind = "header" /\ probe.resolved =>
    /\ probe.plan.err = NilErr /\ probe.planP.err = NilErr
    /\ probe.out = probe.outP

\* C12 amended: the same, for header rows in which every field name occurs
\* exactly once.
C12_PermutedSameIfOnce ==
  /\ probe.kind = "header" /\ probe.resolved
  /\ \A i \in 1..NumField(probe.shape) :
       Cardinality({c \in 1..Len(probe.header) :
                      probe.header[c] = probe.shape.fields[i].name}) = 1
  => /\ probe.plan.err = NilErr /\ probe.planP.err = NilErr
     /\ probe.out = probe.outP

C12_Witness ==
  /\ probe.kind = "header" /\ probe.shape = Named /\ probe.header = <<<<"a">>, <<"1">>>>
  /\ probe.perm[1] = 2 /\ Len(probe.out) = 2
  /\ probe.outP[1] = {[err |-> NilErr, out |-> <<IntVal(1), StrVal(<<"a">>)>>]}
  /\ \E x \in probe.out[2] : x.err # NilErr

\* C13: while a fresh Reader is only ever asked to Read into one name-bound
\* variable, the rows consumed are one more than the records delivered (the
\* header, read once), the k-th Read that returns true delivers row k+1
\* decoded through the header, and Read returns false at the end of the input
\* only when every row but the header has been delivered.
C13_HeaderConsumedOnce ==
  /\ hist.script = "named" =>
       /\ hist.lastRet.ok
       /\ r.lineno = hist.nTrue + 1 /\ prod.rows = hist.nTrue + 1
       /\ prod.last = [line |-> r.cur, err |-> NilErr]
       /\ e.val = [i \in 1..NumField(e.type) |->
                     Call(createDefaultConverter(e.type.fields[i].Type),
                          r.cur[CHOOSE c \in 1..Len(r.firstLine) :
                                  /\ r.firstLine[c] = e.type.fields[i].name
                                  /\ \A b \in 1..(c - 1) :
                                       r.firstLine[b] # e.type.fields[i].name]).val]
  /\ hist.script = "ndrained" =>
       /\ ~hist.lastRet.ok /\ prod.eof
       /\ r.lineno = hist.nTrue + 1 /\ prod.rows = hist.nTrue + 1

C13_Witness ==
  /\ hist.script = "ndrained" /\ hist.nTrue = 2 /\ r.lineno = 3
  /\ r.firstLine = <<<<"a">>, <<"1">>>>

\* C14 as stated: when the visitor returns Break or false, Loop returns nil
\* without reading another row or calling the visitor again: the last record
\* delivered is the last row the producer handed out.
C14_BreakReturnsNil ==
  hist.lastOp = "Loop" /\ hist.stop \in {Break, [kind |-> "false"]} =>
    /\ pc = "idle"
    /\ visits # <<>> /\ visits[Len(visits)].lineno = r.lineno
    /\ prod.last = [line |-> r.cur, err |-> NilErr] /\ prod.rows = r.lineno
    /\ hist.lastRet.err = NilErr

\* C14 amended: the same, but Loop returns what closing leaves: nil without a
\* closer or when Close succeeds, the error of Close when Close fails.
C14_BreakReturnsCloseResult ==
  hist.lastOp = "Loop" /\ hist.stop \in {Break, [kind |-> "false"]} =>
    /\ pc = "idle"
    /\ visits # <<>> /\ visits[Len(visits)].lineno = r.lineno
    /\ prod.last = [line |-> r.cur, err |-> NilErr] /\ prod.rows = r.lineno
    /\ hist.lastRet.err = IF r.closer THEN stream.closeErr ELSE NilErr

C14_Witness ==
  /\ hist.lastOp = "Loop" /\ hist.stop = Break /\ Len(visits) = 2 /\ r.lineno = 3
  /\ hist.lastRet.err = NilErr /\ ~prod.eof

\* C15: when the visitor returns an error other than Break (io.EOF included),
\* Loop returns that error without reading another row or calling the visitor
\* again, whether or not the Reader owns a closer whose Close fails.
C15_VisitorErrorReturned ==
  hist.lastOp = "Loop" /\ hist.stop \in {VisitorError, EOF} =>
    /\ pc = "idle"
    /\ visits # <<>> /\ visits[Len(visits)].lineno = r.lineno
    /\ prod.last = [line |-> r.cur, err |-> NilErr] /\ prod.rows = r.lineno
    /\ hist.lastRet.err = hist.stop

\* C16: when ReadAll has returned, the target sequence has grown by exactly
\* the rows that were decoded without an error (a row whose decoding failed
\* is not appended), and the producer was not asked for a row after the row
\* that failed.
C16_OnlyDecodedRowsAppended ==
  hist.lastOp = "ReadAll" /\ pc = "idle" =>
    /\ Len(s.val) = hist.owed
    /\ hist.dec.valid /\ hist.dec.err # NilErr =>
         prod.last = [line |-> r.cur, err |-> NilErr]

\* C17: whenever Loop or ReadAll has returned, on whatever path, the Reader is
\* done, the owned closer has been closed exactly once, the value returned is
\* the value a Done called now returns, and that Done does not close again.
C17_FinalizedOnReturn ==
  hist.lastOp \in {"Loop", "ReadAll"} /\ pc = "idle" /\ ~panicked =>
    /\ r.done /\ ClosedOnce
    /\ Done(r, stream).ret = hist.lastRet.err
    /\ Done(r, stream).stream = stream

\* a Loop that ended on a row error after a visit, on a Reader whose closer fails
C17_Witness ==
  /\ hist.lastOp = "Loop" /\ pc = "idle" /\ r.closer /\ stream.closeErr = CloseError
  /\ stream.closed = 1 /\ Len(visits) = 1 /\ hist.lastRet.err = ErrParse

\* C18: LineNumber is the number of rows the producer has handed to the
\* Reader, the header row included (so it never decreases and a read attempt
\* that meets an error or the end of the input leaves it as it was), and while
\* a Loop over an index-bound shape runs on a fresh Reader the k-th record
\* was delivered with LineNumber k.
C18_LineNumberCountsRows ==
  /\ LineNumber(r) = prod.rows
  /\ pc = "Loop" /\ hist.calls = 1 /\ Binding(call.arg.in[1].type) = "index" =>
       \A k \in 1..Len(visits) : visits[k].lineno = k

C18_Witness ==
  /\ pc = "Loop" /\ hist.calls = 1 /\ Binding(call.arg.in[1].type) = "index"
  /\ Len(visits) = 2 /\ LineNumber(r) = 2 /\ visits[2].lineno = 2

C20_MixedAlwaysReported ==
  /\ probe.kind = "shape" /\ probe.analysed
  /\ \E i \in 1..NumField(probe.shape) :
       probe.shape.fields[i].index # <<>> /\ probe.shape.fields[i].name = <<>>
  /\ \E i \in 1..NumField(probe.shape) :
       probe.shape.fields[i].name # <<>> /\ probe.shape.fields[i].index = <<>>
  => /\ probe.res.dec = NoDecoder /\ probe.res.err.kind = "analysis"
     /\ Cardinality({k \in 1..Len(probe.res.err.msgs) :
                       probe.res.err.msgs[k] =
                         Msg("Fields with name and fields with index are mixed", "")}) = 1

\* C21: the converter of a field is resolved by one precedence.  With an enc
\* name: a non-nil entry Decoders[enc] is the converter of every plan, also
\* under a built-in name; without such an entry the converter is the built-in
\* one of that base; with neither, the analysis fails with "not defined".
\* Without an enc name: the TypeDecoders entry of the field type is the
\* converter of the plan, the default converter if there is no entry, and the
\* analysis fails for a type that has neither.
C21_ResolutionPrecedence ==
  probe.kind = "converter" /\ probe.analysed =>
    LET f == probe.shape.fields[1]
        user == ~probe.opt.Decoders.isnil /\ MapHas(probe.opt.Decoders, f.enc)
                /\ probe.opt.Decoders.m[f.enc] # NoConv
        typed == ~probe.opt.TypeDecoders.isnil /\ MapHas(probe.opt.TypeDecoders, f.Type)
        planned == probe.res.err = NilErr
        conv == probe.res.dec.converters[1]
    IN /\ planned /\ f.enc # "" /\ user => conv = probe.opt.Decoders.m[f.enc]
       /\ planned /\ f.enc # "" /\ ~user =>
            /\ predefinedDecoders(f.enc) # 0
            /\ conv = createIntConverter(f.Type, predefinedDecoders(f.enc))
       /\ f.enc # "" /\ ~user /\ predefinedDecoders(f.enc) = 0 =>
            /\ ~planned
            /\ probe.res.err.msgs = <<Msg("Encoding is not defined", f.enc)>>
       /\ planned /\ f.enc = "" /\ typed => conv = probe.opt.TypeDecoders.m[f.Type]
       /\ planned /\ f.enc = "" /\ ~typed => conv = createDefaultConverter(f.Type)
       /\ f.enc = "" /\ ~typed /\ createDefaultConverter(f.Type) = NoConv => ~planned
       \* each of the four sources does produce plans
       /\ f.enc # "" /\ user
          /\ validateCustomConverter(probe.opt.Decoders.m[f.enc], f.enc, f).ok => planned
       /\ f.enc # "" /\ ~user /\ predefinedDecoders(f.enc) # 0
          /\ f.Type \in IntTypes \cup UintTypes => planned
       /\ f.enc = "" /\ typed
          /\ validateTypeDecoder(f.Type, probe.opt.TypeDecoders.m[f.Type]) = NilErr => planned
       /\ f.enc = "" /\ ~typed /\ createDefaultConverter(f.Type) # NoConv => planned

\* a user func(string) (int, error) registered as "hex" is the converter of
\* the plan of an int field with enc:"hex", though TypeDecoders holds int too
C21_Witness ==
  /\ probe.kind = "converter" /\ probe.analysed /\ probe.res.err = NilErr
  /\ probe.shape.fields[1].enc = "hex" /\ probe.shape.fields[1].Type = "int"
  /\ probe.res.dec.converters[1] = UserConv("fail", TRUE, <<"string">>, <<"int", "error">>)
  /\ MapHas(probe.opt.TypeDecoders, "int")

\* C22: for a field whose enc names a non-nil entry of Decoders, the error of
\* the analysis holds the signature violations of that entry, all of them and
\* no other: for a value that is not a function that one message; otherwise
\* the message about the parameters (their number, else the type of the one
\* parameter) followed by the messages about the results (their number, else
\* the type of the first and the type of the second); with any violation no
\* plan is returned.
C22_AllViolationsReported ==
  /\ probe.kind = "converter" /\ probe.analysed /\ probe.shape.fields[1].enc # ""
  /\ ~probe.opt.Decoders.isnil /\ MapHas(probe.opt.Decoders, probe.shape.fields[1].enc)
  /\ probe.opt.Decoders.m[probe.shape.fields[1].enc] # NoConv
  => LET f == probe.shape.fields[1]
         conv == probe.opt.Decoders.m[f.enc]
         texts == {"must be a function", "must receive an arg", "must receive a string",
                   "must return two values", "enc returns another type",
                   "second return value must be error"}
         params == IF Len(conv.in) # 1 THEN <<"must receive an arg">>
                   ELSE IF conv.in[1] # "string" THEN <<"must receive a string">> ELSE <<>>
         results == IF Len(conv.out) # 2 THEN <<"must return two values">>
                    ELSE (IF conv.out[1] # f.Type THEN <<"enc returns another type">> ELSE <<>>)
                         \o (IF conv.out[2] # "error"
                             THEN <<"second return value must be error">> ELSE <<>>)
         expected == IF ~conv.isFunc THEN <<"must be a function">> ELSE params \o results
         reported == IF probe.res.err = NilErr THEN <<>>
                     ELSE SelectSeq([k \in 1..Len(probe.res.err.msgs) |->
                                       probe.res.err.msgs[k].msg],
                                    LAMBDA m : m \in texts)
     IN /\ reported = expected
        /\ expected # <<>> => probe.res.dec = NoDecoder /\ probe.res.err.kind = "analysis"

\* a func(int) (int, int) registered for a string field: three violations
C22_Witness ==
  /\ probe.kind = "converter" /\ probe.analysed /\ probe.shape.fields[1].Type = "string"
  /\ probe.shape.fields[1].enc = "bracket" /\ MapHas(probe.opt.Decoders, "bracket")
  /\ probe.opt.Decoders.m["bracket"] = UserConv("fail", TRUE, <<"int">>, <<"int", "int">>)
  /\ probe.res.dec = NoDecoder /\ Len(probe.res.err.msgs) = 3

C24_ZeroTenIsEight ==
  probe.kind = "numeral" /\ probe.converted /\ probe.type = "int"
  /\ probe.enc \in {"hex", "oct", ""} =>
    /\ probe.text = <<"0", "1", "0">> =>
         probe.res.err = "ok" /\ probe.res.n = <<8, 0, 0, 0, 0>>
    /\ probe.text = <<"0", "2", "1">> =>
         probe.res.err = "ok"
         /\ probe.res.n = <<IF probe.enc = "hex" THEN 33 ELSE 17, 0, 0, 0, 0>>

\* C24 as amended: an int field decodes "010" to 16 under hex and to 8 under
\* oct and without an encoding, and "021" to 33 under hex and to 17 under oct
\* and without an encoding.
C24_ZeroTenIsSixteenUnderHex ==
  probe.kind = "numeral" /\ probe.converted /\ probe.type = "int"
  /\ probe.enc \in {"hex", "oct", ""} =>
    /\ probe.text = <<"0", "1", "0">> =>
         probe.res.err = "ok"
         /\ probe.res.n = <<IF probe.enc = "hex" THEN 16 ELSE 8, 0, 0, 0, 0>>
    /\ probe.text = <<"0", "2", "1">> =>
         probe.res.err = "ok"
         /\ probe.res.n = <<IF probe.enc = "hex" THEN 33 ELSE 17, 0, 0, 0, 0>>

\* "021" of an int field with enc:"hex" has become 33
C24_Witness ==
  /\ probe.kind = "numeral" /\ probe.converted /\ probe.type = "int" /\ probe.enc = "hex"
  /\ probe.text = <<"0", "2", "1">> /\ probe.res.err = "ok" /\ probe.res.n[1] = 33

\* C25: for a field of type int8, int16, int32, int64, uint8, uint16, uint32
\* or uint64 and a numeral of the base in force (an optional minus sign, the
\* prefix if the base comes from it, digits of the base), the converter
\* succeeds if and only if the number the numeral denotes is in the range of
\* the type, and then returns that number.
C25_ExactlyTheRepresentable ==
  /\ probe.kind = "numeral" /\ probe.converted
  /\ probe.type \in (IntTypes \cup UintTypes) \ {"int", "uint"}
  => LET neg == probe.text[1] = "-"
         body == IF neg THEN Tail(probe.text) ELSE probe.text
         prefixed == probe.enc = "" /\ Len(body) >= 2 /\ body[1] = "0"
         hex == prefixed /\ body[2] = "x"
         base == CASE probe.enc = "hex" -> 16 [] probe.enc = "oct" -> 8
                   [] probe.enc = "deci" -> 10
                   [] OTHER -> IF hex THEN 16 ELSE IF prefixed THEN 8 ELSE 10
         digits == IF hex THEN Tail2(body) ELSE IF prefixed THEN Tail(body) ELSE body
         \* the number, read with 80 bits ("range" if it needs more)
         number == AccumulateWide(digits, 1, base, <<0, 0, 0, 0, 0>>, 80)
         width == CASE probe.type \in {"int8", "uint8"} -> 8
                    [] probe.type \in {"int16", "uint16"} -> 16
                    [] probe.type \in {"int32", "uint32"} -> 32
                    [] OTHER -> 64
         inRange ==
           /\ number.err = "ok"
           /\ IF probe.type \in UintTypes THEN ~neg /\ Below2(number.n, width)
              ELSE \/ Below2(number.n, width - 1)
                   \/ neg /\ number.n = [k \in 1..5 |-> IF k = ((width - 1) \div 16) + 1
                                                        THEN Pow2((width - 1) % 16) ELSE 0]
     IN Len(digits) > 0 /\ number.err # "syntax" =>
          /\ (probe.res.err = "ok") = inRange
          /\ probe.res.err = "ok" => probe.res.n = number.n /\ probe.res.neg = neg
          /\ probe.res.err # "ok" => probe.res.err = IF neg /\ probe.type \in UintTypes
                                                      THEN "syntax" ELSE "range"

\* C26: mergeOptions folds its list from left to right.  After the Options
\* before position at: Comma and Comment are those of the last of them where
\* they are not zero (zero if there is none), a flag is true if and only if
\* it is true in one of them, and Decoders and TypeDecoders hold each key of
\* their maps with its value in the last of them that has the key; the
\* Options of the caller are as they were passed; and the returned Option and
\* error are those of mergeOptions on the same list with any one Option
\* doubled in place.
C26_MergeFoldsLeftToRight ==
  probe.kind = "merge" =>
    LET seen == 1..probe.at
        last(S) == CHOOSE i \in S : \A j \in S : j <= i
        lastOf(f) == IF {i \in seen : probe.opts[i][f] # 0} = {} THEN 0
                     ELSE probe.opts[last({i \in seen : probe.opts[i][f] # 0})][f]
        keys(f) == UNION {DOMAIN probe.opts[i][f].m : i \in seen}
        doubled(i) == [k \in 1..(Len(probe.opts) + 1) |->
                         probe.opts[IF k <= i THEN k ELSE k - 1]]
    IN /\ probe.opt.Comma = lastOf("Comma") /\ probe.opt.Comment = lastOf("Comment")
       /\ \A f \in {"LazyQuotes", "AllowMissingFields", "AutoIndex", "AutoName"} :
            probe.opt[f] = (\E i \in seen : probe.opts[i][f])
       /\ \A f \in {"Decoders", "TypeDecoders"} :
            /\ DOMAIN probe.opt[f].m = keys(f)
            /\ \A k \in keys(f) :
                 probe.opt[f].m[k] =
                   probe.opts[last({i \in seen : k \in DOMAIN probe.opts[i][f].m})][f].m[k]
       /\ probe.passed = probe.opts
       /\ probe.done =>
            /\ mergeOptions(probe.opts) = [opt |-> probe.opt, err |-> probe.err]
            /\ \A i \in 1..Len(probe.opts) :
                 mergeOptions(doubled(i)) = [opt |-> probe.opt, err |-> probe.err]

\* two Options merged: the second one's encoding "bracket" has replaced the
\* first one's, and the first one's Comma and AutoName have stayed
C26_Witness ==
  /\ probe.kind = "merge" /\ probe.done /\ Len(probe.opts) >= 2
  /\ probe.opts[1].Comma = 9 /\ probe.opts[1].Decoders.m = [k \in {"bracket"} |-> FailConv]
  /\ probe.opts[2].Decoders.m = [k \in {"hex", "bracket"} |->
                                   IF k = "hex" THEN FailConv ELSE BracketConv]
  /\ probe.opt.Comma = 9 /\ probe.opt.Decoders.m["bracket"] = BracketConv
  /\ probe.opt.AutoName /\ probe.err = NilErr

\* C27: once consumeHeader has resolved a name-bound shape against a header
\* row, every field is bound to the leftmost column that carries its name
\* and to no other column, and decode takes no text from a later column of
\* that name, whatever the rows.
C27_LeftmostColumnWins ==
  probe.kind = "header" /\ probe.resolved =>
    LET leftmost(i) ==
          CHOOSE c \in 1..Len(probe.header) :
            /\ probe.header[c] = probe.shape.fields[i].name
            /\ \A b \in 1..(c - 1) : probe.header[b] # probe.shape.fields[i].name
    IN /\ probe.plan.err = NilErr
       /\ \A i \in 1..NumField(probe.shape) :
            {c \in DOMAIN probe.plan.dec.indice.m : probe.plan.dec.indice.m[c] = i - 1}
              = {leftmost(i) - 1}
       /\ probe.reads \subseteq {leftmost(i) - 1 : i \in 1..NumField(probe.shape)}

\* struct { B string `name:"a"` } under the header a,a: B is bound to column
\* 0, and MaxRows rows have been decoded from column 0 alone
C27_Witness ==
  /\ probe.kind = "header" /\ probe.header = <<<<"a">>, <<"a">>>> /\ probe.resolved
  /\ NumField(probe.shape) = 1 /\ DOMAIN probe.plan.dec.indice.m = {0}
  /\ Len(probe.out) = MaxRows /\ probe.reads = {0}

\* C28: every row is decoded into an instance of its own.  What the caller
\* has been given, a record through the pointer or as the value that the
\* visitor of Loop receives, an element that ReadAll has appended, a slice
\* that Read has stored, is still what it was when it was given, whatever
\* rows have been decoded since; and after Read has failed to decode a row
\* into a slice variable, the variable holds the elements it held before
\* the call.
C28_FreshInstancePerRow ==
  probe.kind = "fresh" =>
    /\ \A k \in 1..Len(probe.kept) :
         (IF probe.kept[k].at = 0 THEN probe.kept[k].val
          ELSE probe.heap[probe.kept[k].at].val) = probe.kept[k].was
    /\ probe.op = "Read" /\ probe.failed =>
         (IF probe.heap[1].array = 0 THEN <<>> ELSE probe.heap[probe.heap[1].array].val)
           = probe.before

\* Read has stored two slices that differ, the caller has kept both, and a
\* third Read has failed to decode its row
C28_Witness ==
  /\ probe.kind = "fresh" /\ probe.op = "Read" /\ Len(probe.kept) = 2
  /\ probe.kept[1].was # probe.kept[2].was /\ probe.kept[1].at # probe.kept[2].at
  /\ probe.failed /\ probe.before = probe.kept[2].was

\* C29: in every plan that newStructDecoder returns, every field of the
\* struct is the target of exactly one binding, a column index of indice or
\* a header name of names, also when two fields have the same index tag or
\* the same name tag.
C29_EveryFieldBound ==
  probe.kind = "shape" /\ probe.analysed /\ probe.res.err = NilErr =>
    \A i \in 1..NumField(probe.shape) :
      Cardinality({c \in DOMAIN probe.res.dec.indice.m : probe.res.dec.indice.m[c] = i - 1})
      + Cardinality({n \in DOMAIN probe.res.dec.names.m : probe.res.dec.names.m[n] = i - 1})
      = 1

\* C30: whatever Read, Loop and ReadAll calls a Reader has served, a call
\* that resolves the header of a name-bound shape resolves it against a row
\* that has not been given to the caller as a decoded record: the header row
\* is the first row of the input, so the first row has not been delivered as
\* data when a header is resolved.
C30_HeaderRowIsNoData ==
  hist.calls > 0 /\ hist.hdr.seen => ~hist.rowOne

====
